---- MODULE Spec2Model ----
(***************************************************************************)
(* Change-proposal workflow of the KDP ad automator MCP server.            *)
(*                                                                         *)
(* The server handles each tool call in an async request handler; a        *)
(* handler is suspended at every `await` (a store query or a call of the   *)
(* Amazon Ads client), and other handlers run in between.  One action of   *)
(* this model is one awaited operation taking effect together with the     *)
(* synchronous code that follows it up to the next await or return.        *)
(*                                                                         *)
(* Money is in cents.  Timestamps are values of a logical clock (NOW());   *)
(* 0 stands for a NULL timestamp.                                          *)
(***************************************************************************)
EXTENDS Integers, Sequences, FiniteSets, TLC

\* ------------------------------------------------------------------
\* Bounds of the model
\* ------------------------------------------------------------------

\* Tool calls the server takes, and writes of the sync worker, in one run.
MaxRequests == 3

\* Request handlers that can be in flight at the same time.
Handlers == {"h1", "h2"}

\* Targets named by tool calls; "k0" and "c0" are never stored.
KeywordIds == {"k1"}
CampaignIds == {"c1"}
KeywordArgs == KeywordIds \cup {"k0"}
CampaignArgs == CampaignIds \cup {"c0"}

\* Values written by the sync worker and proposed by callers.
StoredBids == {110, 95}
NewBids == {85}
StoredStates == {"enabled"}
NewStates == {"paused"}
NewBudgets == {2000}
NegativeTexts == {"free"}
MatchTypes == {"negativeExact"}
Reasons == {"high acos"}

\* Messages of the errors the Amazon Ads client throws (Error.message).
BackendMessages == {"", "API Error: 400"}
\* Messages of the errors a store query throws.
StoreMessages == {"connection terminated"}

\* ------------------------------------------------------------------
\* Values
\* ------------------------------------------------------------------

SqlNull == "NULL"
Undefined == "undefined"
NoTime == 0

Statuses == {"pending", "approved", "rejected", "executed", "failed"}
ChangeTypes == {"bid_adjustment", "state_change", "budget_change", "add_negative_keyword"}

\* JSON objects are sets of <<key, value>> pairs; {} is the empty object.
\* The payloads stored here hold only numbers and strings, which the JSONB
\* columns return as they were written.
JsonNull == {<<"null", "null">>}
\* An optional object argument that was not passed.
JsonUndefined == {<<"undefined", "undefined">>}

\* JavaScript truthiness of an optional string argument.
Truthy(s) == s # Undefined /\ s # SqlNull /\ s # ""

VARIABLES
    adsClient,        \* TRUE iff createAmazonAdsClient() returned a client
    keywords,         \* keywords table: id -> row
    campaigns,        \* campaigns table: id -> row
    pending_changes,  \* pending_changes table: sequence of rows, index = id
    change_history,   \* change_history table: sequence of rows
    apiCalls,         \* mutation calls received by the Amazon Ads API, in order
    clock,            \* NOW()
    requests,         \* tool calls taken so far
    handler,          \* per request handler: position and locals
    result            \* per request handler: the response of its last tool call

vars == <<adsClient, keywords, campaigns, pending_changes, change_history,
          apiCalls, clock, requests, handler, result>>

\* The metrics store and the analysis functions (values: see the section on
\* metrics and analysis).
VARIABLES
    campaign_metrics, \* campaign_metrics table: sequence of rows
    metrics,          \* the CampaignMetrics[] argument of calculateROI
    previousMetrics,  \* the metrics of the previous period of compare_periods
    config,           \* the AnalysisConfig argument of calculateROI
    roi,              \* <<the ROIMetrics returned>>, <<>> before the call
    previousRoi,      \* <<the ROIMetrics of the previous period>>
    comparison,       \* <<the PeriodComparison returned>>
    totals,           \* <<the totals aggregateMetrics returned>>
    synced            \* syncMetrics: how many of the fetched metrics are upserted

analysisVars == <<campaign_metrics, metrics, previousMetrics, config, roi,
                  previousRoi, comparison, totals, synced>>

\* No metric is stored and no analysis function has been called.
AnalysisIdle ==
    /\ campaign_metrics = <<>>
    /\ metrics = <<>>
    /\ previousMetrics = <<>>
    /\ config = <<>>
    /\ roi = <<>>
    /\ previousRoi = <<>>
    /\ comparison = <<>>
    /\ totals = <<>>
    /\ synced = 0

\* What the reporting tools returned.
VARIABLES
    breakdown,        \* <<the answer of get_daily_breakdown>>, <<>> before the call
    summary           \* <<the answer of analyze_roi>>, <<>> before the call

reportVars == <<breakdown, summary>>

\* No reporting tool has been called.
ReportsIdle ==
    /\ breakdown = <<>>
    /\ summary = <<>>

\* The sync worker: one call of fetchCampaignMetrics and one run of runSync.
VARIABLES
    fetch,            \* the fetchCampaignMetrics call: position, clock, last status
    run               \* the runSync call: position, flags and the calls made so far

workerVars == <<fetch, run>>

\* fetchCampaignMetrics has not been called.
FetchIdle ==
    [pc |-> "idle", pollInterval |-> 0, maxWaitTime |-> 0, startTime |-> 0, now |-> 0,
     status |-> [status |-> "", url |-> FALSE, failureReason |-> ""],
     statusRequests |-> 0, outcome |-> "", message |-> ""]

\* runSync has not been called.
RunIdle ==
    [pc |-> "idle", table |-> {}, list |-> <<>>, index |-> 0, count |-> 0,
     success |-> TRUE, errorMessage |-> "", totalRecords |-> 0, calls |-> <<>>]

WorkerIdle ==
    /\ fetch = FetchIdle
    /\ run = RunIdle

\* ------------------------------------------------------------------
\* Store (KdpDatabase): each operator is one SQL statement
\* ------------------------------------------------------------------

\* Local `change` of a handler that holds no proposal.
NoChange ==
    [changeType |-> "", targetType |-> "", targetId |-> "", targetName |-> SqlNull,
     currentValue |-> {}, proposedValue |-> {}, reason |-> SqlNull, status |-> "",
     createdAt |-> NoTime, reviewedAt |-> NoTime, executedAt |-> NoTime,
     errorMessage |-> SqlNull]

\* SELECT * FROM keywords / campaigns WHERE id = $1: the row, if there is one.
KeywordExists(id) == id \in DOMAIN keywords
getKeywordById(id) == keywords[id]
CampaignExists(id) == id \in DOMAIN campaigns
getCampaignById(id) == campaigns[id]

upsertKeyword(table, id, row) == [table EXCEPT ![id] = row]

\* createPendingChange with reviewed_at defaulting to NOW() like created_at.
createPendingChange_reviewed(table, change, now) ==
    Append(table,
           [changeType |-> change.changeType, targetType |-> change.targetType,
            targetId |-> change.targetId, targetName |-> change.targetName,
            currentValue |-> change.currentValue,
            proposedValue |-> change.proposedValue,
            reason |-> change.reason, status |-> "pending", createdAt |-> now,
            reviewedAt |-> now, executedAt |-> NoTime, errorMessage |-> SqlNull])

\* INSERT INTO pending_changes ...: status, created_at and the nullable
\* columns take the defaults of the schema.
createPendingChange(table, change, now) ==
    Append(table,
           [changeType |-> change.changeType, targetType |-> change.targetType,
            targetId |-> change.targetId, targetName |-> change.targetName,
            currentValue |-> change.currentValue,
            proposedValue |-> change.proposedValue,
            reason |-> change.reason, status |-> "pending", createdAt |-> now,
            reviewedAt |-> NoTime, executedAt |-> NoTime, errorMessage |-> SqlNull])

\* The ids in S by created_at DESC (a tie is broken by the id: the store
\* returns the rows of one created_at in an order of its choice).
RECURSIVE OrderByCreatedAtDesc(_, _)
OrderByCreatedAtDesc(table, S) ==
    IF S = {} THEN <<>>
    ELSE LET newest == CHOOSE i \in S :
                          \A j \in S : \/ table[i].createdAt > table[j].createdAt
                                       \/ /\ table[i].createdAt = table[j].createdAt
                                          /\ i >= j
         IN <<newest>> \o OrderByCreatedAtDesc(table, S \ {newest})

\* getPendingChanges with ORDER BY created_at ASC.
getPendingChanges_asc(table, status) ==
    LET S == IF Truthy(status)
             THEN {i \in DOMAIN table : table[i].status = status}
             ELSE DOMAIN table
        desc == OrderByCreatedAtDesc(table, S)
    IN [k \in 1..Len(desc) |-> desc[Len(desc) + 1 - k]]

\* SELECT * FROM pending_changes [WHERE status = $1] ORDER BY created_at DESC:
\* the ids of the rows returned, in order.
getPendingChanges(table, status) ==
    LET S == IF Truthy(status)
             THEN {i \in DOMAIN table : table[i].status = status}
             ELSE DOMAIN table
    IN OrderByCreatedAtDesc(table, S)

PendingChangeExists(id) == id \in DOMAIN pending_changes
getPendingChangeById(id) == pending_changes[id]

\* updatePendingChangeStatus that also sets created_at = NOW().
updatePendingChangeStatus_createdAt(table, id, status, errorMessage, now) ==
    IF id \notin DOMAIN table THEN table
    ELSE [table EXCEPT ![id] =
            [@ EXCEPT !.status = status,
                      !.createdAt = now,
                      !.reviewedAt = now,
                      !.executedAt = IF status \in {"executed", "failed"} THEN now ELSE @,
                      !.errorMessage = IF Truthy(errorMessage) THEN errorMessage ELSE @]]

\* updatePendingChangeStatus without `WHERE id = $1`: every row is updated.
updatePendingChangeStatus_allRows(table, id, status, errorMessage, now) ==
    [i \in DOMAIN table |->
        [table[i] EXCEPT !.status = status,
                         !.reviewedAt = now,
                         !.executedAt = IF status \in {"executed", "failed"} THEN now ELSE @,
                         !.errorMessage = IF Truthy(errorMessage) THEN errorMessage ELSE @]]

\* updatePendingChangeStatus without the test of the status before
\* `executed_at = NOW()`.
updatePendingChangeStatus_executedAt(table, id, status, errorMessage, now) ==
    IF id \notin DOMAIN table THEN table
    ELSE [table EXCEPT ![id] =
            [@ EXCEPT !.status = status,
                      !.reviewedAt = now,
                      !.executedAt = now,
                      !.errorMessage = IF Truthy(errorMessage) THEN errorMessage ELSE @]]

\* UPDATE pending_changes SET status = $2, reviewed_at = NOW() [, executed_at
\* = NOW()] [, error_message = $3] WHERE id = $1
updatePendingChangeStatus(table, id, status, errorMessage, now) ==
    IF id \notin DOMAIN table THEN table
    ELSE [table EXCEPT ![id] =
            [@ EXCEPT !.status = status,
                      !.reviewedAt = now,
                      !.executedAt = IF status \in {"executed", "failed"} THEN now ELSE @,
                      !.errorMessage = IF Truthy(errorMessage) THEN errorMessage ELSE @]]

\* recordChangeHistory writing an entry only for a successful execution.
recordChangeHistory_successOnly(table, pendingChangeId, targetType, targetId, changeType, oldValue, newValue, success, apiResponse, now) ==
    IF success
    THEN Append(table,
           [pendingChangeId |-> pendingChangeId, targetType |-> targetType,
            targetId |-> targetId, changeType |-> changeType,
            oldValue |-> oldValue, newValue |-> newValue, executedAt |-> now,
            success |-> success,
            apiResponse |-> IF apiResponse = JsonUndefined THEN JsonNull ELSE apiResponse])
    ELSE table

\* recordChangeHistory with old_value and new_value bound the other way round.
recordChangeHistory_swapped(table, pendingChangeId, targetType, targetId, changeType, oldValue, newValue, success, apiResponse, now) ==
    Append(table,
           [pendingChangeId |-> pendingChangeId, targetType |-> targetType,
            targetId |-> targetId, changeType |-> changeType,
            oldValue |-> newValue, newValue |-> oldValue, executedAt |-> now,
            success |-> success,
            apiResponse |-> IF apiResponse = JsonUndefined THEN JsonNull ELSE apiResponse])

\* INSERT INTO change_history ...
recordChangeHistory(table, pendingChangeId, targetType, targetId, changeType, oldValue, newValue, success, apiResponse, now) ==
    Append(table,
           [pendingChangeId |-> pendingChangeId, targetType |-> targetType,
            targetId |-> targetId, changeType |-> changeType,
            oldValue |-> oldValue, newValue |-> newValue, executedAt |-> now,
            success |-> success,
            apiResponse |-> IF apiResponse = JsonUndefined THEN JsonNull ELSE apiResponse])

\* ------------------------------------------------------------------
\* Request handlers
\* ------------------------------------------------------------------

Idle == [pc |-> "idle", changeId |-> 0, change |-> NoChange, errorMsg |-> ""]

Response(tool, outcome, isError, changeId, detail) ==
    [tool |-> tool, outcome |-> outcome, isError |-> isError,
     changeId |-> changeId, detail |-> detail, rows |-> <<>>]

NoResponse == Response("", "none", FALSE, 0, "")

\* The handler returns: its locals are dropped and the response is sent.
Return(h, response) ==
    /\ handler' = [handler EXCEPT ![h] = Idle]
    /\ result' = [result EXCEPT ![h] = response]

\* The handler goes on to its next await.
Goto(h, pc, changeId, change, errorMsg) ==
    /\ handler' = [handler EXCEPT ![h] =
                     [pc |-> pc, changeId |-> changeId, change |-> change,
                      errorMsg |-> errorMsg]]
    /\ UNCHANGED result

\* Proposal ids a caller can name: the stored ones and one that is not stored.
ChangeIdArgs == 1..(Len(pending_changes) + 1)

Init ==
    /\ adsClient \in BOOLEAN
    /\ keywords = [k \in KeywordIds |-> [keywordText |-> "kw", state |-> "enabled", bid |-> 110]]
    /\ campaigns = [c \in CampaignIds |-> [name |-> "camp", dailyBudget |-> 1000]]
    /\ pending_changes = <<>>
    /\ change_history = <<>>
    /\ apiCalls = <<>>
    /\ clock = 1
    /\ requests = 0
    /\ handler = [h \in Handlers |-> Idle]
    /\ result = [h \in Handlers |-> NoResponse]
    /\ AnalysisIdle
    /\ ReportsIdle
    /\ WorkerIdle

\* --- propose_* : read the target, then insert the proposal ---------

Draft(changeType, targetType, targetId, targetName, currentValue, proposedValue, reason) ==
    [NoChange EXCEPT !.changeType = changeType, !.targetType = targetType,
                     !.targetId = targetId, !.targetName = targetName,
                     !.currentValue = currentValue,
                     !.proposedValue = proposedValue, !.reason = reason]


\* Handlers are anonymous invocations of the same callback: the next tool call
\* is given to the first free slot.
SlotOf(h) == IF h = "h1" THEN 1 ELSE 2

\* An idle handler takes the next tool call.
Accept(h) ==
    /\ handler[h].pc = "idle"
    /\ \A g \in Handlers : handler[g].pc = "idle" => SlotOf(h) <= SlotOf(g)
    /\ requests < MaxRequests
    /\ requests' = requests + 1

propose_bid_change(h, keywordId, newBid, reason) ==
    /\ Accept(h)
    /\ IF ~KeywordExists(keywordId)
       THEN Return(h, Response("propose_bid_change", "not_found", TRUE, 0, keywordId))
       ELSE LET keyword == getKeywordById(keywordId) IN
            Goto(h, "createPendingChange", 0,
                 Draft("bid_adjustment", "keyword", keywordId, keyword.keywordText,
                       {<<"bid", keyword.bid>>}, {<<"bid", newBid>>}, reason), "")
    /\ UNCHANGED <<adsClient, keywords, campaigns, pending_changes, change_history,
                   apiCalls, clock>>
    /\ UNCHANGED analysisVars
    /\ UNCHANGED reportVars
    /\ UNCHANGED workerVars

propose_keyword_state_change(h, keywordId, newState, reason) ==
    /\ Accept(h)
    /\ IF ~KeywordExists(keywordId)
       THEN Return(h, Response("propose_keyword_state_change", "not_found", TRUE, 0, keywordId))
       ELSE LET keyword == getKeywordById(keywordId) IN
            Goto(h, "createPendingChange", 0,
                 Draft("state_change", "keyword", keywordId, keyword.keywordText,
                       {<<"state", keyword.state>>}, {<<"state", newState>>}, reason), "")
    /\ UNCHANGED <<adsClient, keywords, campaigns, pending_changes, change_history,
                   apiCalls, clock>>
    /\ UNCHANGED analysisVars
    /\ UNCHANGED reportVars
    /\ UNCHANGED workerVars

propose_budget_change(h, campaignId, newBudget, reason) ==
    /\ Accept(h)
    /\ IF ~CampaignExists(campaignId)
       THEN Return(h, Response("propose_budget_change", "not_found", TRUE, 0, campaignId))
       ELSE LET campaign == getCampaignById(campaignId) IN
            Goto(h, "createPendingChange", 0,
                 Draft("budget_change", "campaign", campaignId, campaign.name,
                       {<<"dailyBudget", campaign.dailyBudget>>},
                       {<<"dailyBudget", newBudget>>}, reason), "")
    /\ UNCHANGED <<adsClient, keywords, campaigns, pending_changes, change_history,
                   apiCalls, clock>>
    /\ UNCHANGED analysisVars
    /\ UNCHANGED reportVars
    /\ UNCHANGED workerVars

propose_negative_keyword(h, campaignId, keywordText, matchType, reason) ==
    /\ Accept(h)
    /\ IF ~CampaignExists(campaignId)
       THEN Return(h, Response("propose_negative_keyword", "not_found", TRUE, 0, campaignId))
       ELSE LET campaign == getCampaignById(campaignId) IN
            Goto(h, "createPendingChange", 0,
                 Draft("add_negative_keyword", "campaign", campaignId, campaign.name,
                       {}, {<<"keywordText", keywordText>>, <<"matchType", matchType>>},
                       reason), "")
    /\ UNCHANGED <<adsClient, keywords, campaigns, pending_changes, change_history,
                   apiCalls, clock>>
    /\ UNCHANGED analysisVars
    /\ UNCHANGED reportVars
    /\ UNCHANGED workerVars

\* await db.createPendingChange(...); return the new id.
propose_insert(h) ==
    /\ handler[h].pc = "createPendingChange"
    /\ pending_changes' = createPendingChange(pending_changes, handler[h].change, clock)
    /\ clock' = clock + 1
    /\ Return(h, Response("propose", "proposed", FALSE, Len(pending_changes'), ""))
    /\ UNCHANGED <<requests, adsClient, keywords, campaigns, change_history, apiCalls>>
    /\ UNCHANGED analysisVars
    /\ UNCHANGED reportVars
    /\ UNCHANGED workerVars

\* --- list_pending_changes ------------------------------------------

\* Status filters a caller can pass; Undefined: the argument is left out.
ListStatusArgs == Statuses \cup {Undefined}

\* `args?.status || 'pending'`
list_status(status) == IF Truthy(status) THEN status ELSE "pending"

\* await db.getPendingChanges(status); the answer lists the rows in the order
\* returned.
list_pending_changes(h, statusArg) ==
    /\ Accept(h)
    /\ LET status == list_status(statusArg)
           changes == getPendingChanges(pending_changes, status)
       IN Return(h, [Response("list_pending_changes", "listed", FALSE, 0, status)
                       EXCEPT !.rows = changes])
    /\ UNCHANGED <<adsClient, keywords, campaigns, pending_changes, change_history,
                   apiCalls, clock>>
    /\ UNCHANGED analysisVars
    /\ UNCHANGED reportVars
    /\ UNCHANGED workerVars

\* --- approve_change ------------------------------------------------

\* The approve guard letting a rejected proposal be approved.
approve_isPending_rejected(change) == change.status \in {"pending", "rejected"}

\* The approve guard letting a failed proposal be approved again.
approve_isPending_retry(change) == change.status \in {"pending", "failed"}

\* The guard `change.status !== 'pending'` of approve_change, negated.
approve_isPending(change) == change.status = "pending"

\* await db.getPendingChangeById(changeId), the two guards and the test of
\* adsClient.
\* approve_change answering conflict when the stored keyword no longer has the
\* values of the current-value snapshot.
approve_change_compared(h, changeId) ==
    /\ Accept(h)
    /\ IF ~PendingChangeExists(changeId)
       THEN Return(h, Response("approve_change", "not_found", TRUE, changeId, ""))
       ELSE LET change == getPendingChangeById(changeId) IN
            IF ~approve_isPending(change)
            THEN Return(h, Response("approve_change", "conflict", TRUE, changeId,
                                    change.status))
            ELSE IF /\ change.targetType = "keyword"
                    /\ KeywordExists(change.targetId)
                    /\ \E v \in change.currentValue :
                          getKeywordById(change.targetId)[v[1]] # v[2]
            THEN Return(h, Response("approve_change", "conflict", TRUE, changeId, "stale"))
            ELSE IF ~adsClient
            THEN Goto(h, "approve_recordOnly", changeId, change, "")
            ELSE Goto(h, "approve_execute", changeId, change, "")
    /\ UNCHANGED <<adsClient, keywords, campaigns, pending_changes, change_history,
                   apiCalls, clock>>
    /\ UNCHANGED analysisVars
    /\ UNCHANGED reportVars
    /\ UNCHANGED workerVars

approve_change(h, changeId) ==
    /\ Accept(h)
    /\ IF ~PendingChangeExists(changeId)
       THEN Return(h, Response("approve_change", "not_found", TRUE, changeId, ""))
       ELSE LET change == getPendingChangeById(changeId) IN
            IF ~approve_isPending(change)
            THEN Return(h, Response("approve_change", "conflict", TRUE, changeId,
                                    change.status))
            ELSE IF ~adsClient
            THEN Goto(h, "approve_recordOnly", changeId, change, "")
            ELSE Goto(h, "approve_execute", changeId, change, "")
    /\ UNCHANGED <<adsClient, keywords, campaigns, pending_changes, change_history,
                   apiCalls, clock>>
    /\ UNCHANGED analysisVars
    /\ UNCHANGED reportVars
    /\ UNCHANGED workerVars

\* No API client: await db.updatePendingChangeStatus(changeId, 'approved').
approve_recordOnly(h) ==
    /\ handler[h].pc = "approve_recordOnly"
    /\ pending_changes' = updatePendingChangeStatus(pending_changes, handler[h].changeId,
                                                    "approved", Undefined, clock)
    /\ clock' = clock + 1
    /\ Return(h, Response("approve_change", "approved", FALSE, handler[h].changeId, ""))
    /\ UNCHANGED <<requests, adsClient, keywords, campaigns, change_history, apiCalls>>
    /\ UNCHANGED analysisVars
    /\ UNCHANGED reportVars
    /\ UNCHANGED workerVars

\* obj.key of a JSON object.
JsonGet(obj, key) ==
    IF \E p \in obj : p[1] = key
    THEN (CHOOSE p \in obj : p[1] = key)[2]
    ELSE Undefined

\* The switch sending a state_change to updateKeywordBid.
Dispatch_stateAsBid(change) ==
    CASE change.changeType \in {"bid_adjustment", "state_change"} ->
           [op |-> "updateKeywordBid", targetId |-> change.targetId,
            value |-> <<JsonGet(change.proposedValue, "bid")>>]
      [] change.changeType = "budget_change" ->
           [op |-> "updateCampaignBudget", targetId |-> change.targetId,
            value |-> <<JsonGet(change.proposedValue, "dailyBudget")>>]
      [] change.changeType = "add_negative_keyword" ->
           [op |-> "addNegativeKeyword", targetId |-> change.targetId,
            value |-> <<JsonGet(change.proposedValue, "keywordText"),
                        JsonGet(change.proposedValue, "matchType")>>]
      [] OTHER ->
           [op |-> "throw", targetId |-> change.targetId, value |-> <<>>]

\* The call the switch on change.changeType makes: the client method, the
\* target id and the arguments taken from change.proposedValue.
Dispatch(change) ==
    CASE change.changeType = "bid_adjustment" ->
           [op |-> "updateKeywordBid", targetId |-> change.targetId,
            value |-> <<JsonGet(change.proposedValue, "bid")>>]
      [] change.changeType = "state_change" ->
           [op |-> "updateKeywordState", targetId |-> change.targetId,
            value |-> <<JsonGet(change.proposedValue, "state")>>]
      [] change.changeType = "budget_change" ->
           [op |-> "updateCampaignBudget", targetId |-> change.targetId,
            value |-> <<JsonGet(change.proposedValue, "dailyBudget")>>]
      [] change.changeType = "add_negative_keyword" ->
           [op |-> "addNegativeKeyword", targetId |-> change.targetId,
            value |-> <<JsonGet(change.proposedValue, "keywordText"),
                        JsonGet(change.proposedValue, "matchType")>>]
      [] OTHER ->
           [op |-> "throw", targetId |-> change.targetId, value |-> <<>>]

\* await adsClient.<mutation>(...): the call resolves (ok) or throws an Error
\* with some message.
approve_execute(h, ok, message) ==
    /\ handler[h].pc = "approve_execute"
    /\ LET call == Dispatch(handler[h].change) IN
       IF call.op = "throw"
       THEN /\ UNCHANGED apiCalls
            /\ Goto(h, "approve_markFailed", handler[h].changeId, handler[h].change,
                    "Unknown change type")
       ELSE /\ apiCalls' = Append(apiCalls, [call EXCEPT !.targetId = @] @@
                                  [changeId |-> handler[h].changeId, ok |-> ok])
            /\ IF ok
               THEN Goto(h, "approve_markExecuted", handler[h].changeId,
                         handler[h].change, "")
               ELSE Goto(h, "approve_markFailed", handler[h].changeId,
                         handler[h].change, message)
    /\ UNCHANGED <<requests, adsClient, keywords, campaigns, pending_changes, change_history, clock>>
    /\ UNCHANGED analysisVars
    /\ UNCHANGED reportVars
    /\ UNCHANGED workerVars

\* approve_markExecuted also writing the proposed value into the stored keyword.
approve_markExecuted_applied(h) ==
    /\ handler[h].pc = "approve_markExecuted"
    /\ pending_changes' = updatePendingChangeStatus(pending_changes, handler[h].changeId,
                                                    "executed", Undefined, clock)
    /\ clock' = clock + 1
    /\ Goto(h, "approve_historySuccess", handler[h].changeId, handler[h].change, "")
    /\ keywords' =
          [k \in DOMAIN keywords |->
             IF k = handler[h].change.targetId /\ handler[h].change.targetType = "keyword"
             THEN [f \in DOMAIN keywords[k] |->
                     IF \E v \in handler[h].change.proposedValue : v[1] = f
                     THEN (CHOOSE v \in handler[h].change.proposedValue : v[1] = f)[2]
                     ELSE keywords[k][f]]
             ELSE keywords[k]]
    /\ UNCHANGED <<requests, adsClient, campaigns, change_history, apiCalls>>
    /\ UNCHANGED analysisVars
    /\ UNCHANGED reportVars
    /\ UNCHANGED workerVars

\* try: await db.updatePendingChangeStatus(changeId, 'executed')
approve_markExecuted(h) ==
    /\ handler[h].pc = "approve_markExecuted"
    /\ pending_changes' = updatePendingChangeStatus(pending_changes, handler[h].changeId,
                                                    "executed", Undefined, clock)
    /\ clock' = clock + 1
    /\ Goto(h, "approve_historySuccess", handler[h].changeId, handler[h].change, "")
    /\ UNCHANGED <<requests, adsClient, keywords, campaigns, change_history, apiCalls>>
    /\ UNCHANGED analysisVars
    /\ UNCHANGED reportVars
    /\ UNCHANGED workerVars

\* try: await db.recordChangeHistory(..., true); return success
approve_historySuccess(h) ==
    /\ handler[h].pc = "approve_historySuccess"
    /\ LET change == handler[h].change IN
       change_history' = recordChangeHistory(change_history, handler[h].changeId,
                             change.targetType, change.targetId, change.changeType,
                             change.currentValue, change.proposedValue, TRUE,
                             JsonUndefined, clock)
    /\ clock' = clock + 1
    /\ Return(h, Response("approve_change", "executed", FALSE, handler[h].changeId, ""))
    /\ UNCHANGED <<requests, adsClient, keywords, campaigns, pending_changes, apiCalls>>
    /\ UNCHANGED analysisVars
    /\ UNCHANGED reportVars
    /\ UNCHANGED workerVars

\* catch: await db.updatePendingChangeStatus(changeId, 'failed', errorMsg)
approve_markFailed(h) ==
    /\ handler[h].pc = "approve_markFailed"
    /\ pending_changes' = updatePendingChangeStatus(pending_changes, handler[h].changeId,
                                                    "failed", handler[h].errorMsg, clock)
    /\ clock' = clock + 1
    /\ Goto(h, "approve_historyFailure", handler[h].changeId, handler[h].change,
            handler[h].errorMsg)
    /\ UNCHANGED <<requests, adsClient, keywords, campaigns, change_history, apiCalls>>
    /\ UNCHANGED analysisVars
    /\ UNCHANGED reportVars
    /\ UNCHANGED workerVars

\* catch: await db.recordChangeHistory(..., false, { error: errorMsg }); return
\* the error
approve_historyFailure(h) ==
    /\ handler[h].pc = "approve_historyFailure"
    /\ LET change == handler[h].change IN
       change_history' = recordChangeHistory(change_history, handler[h].changeId,
                             change.targetType, change.targetId, change.changeType,
                             change.currentValue, change.proposedValue, FALSE,
                             {<<"error", handler[h].errorMsg>>}, clock)
    /\ clock' = clock + 1
    /\ Return(h, Response("approve_change", "failed", TRUE, handler[h].changeId,
                          handler[h].errorMsg))
    /\ UNCHANGED <<requests, adsClient, keywords, campaigns, pending_changes, apiCalls>>
    /\ UNCHANGED analysisVars
    /\ UNCHANGED reportVars
    /\ UNCHANGED workerVars

\* --- reject_change -------------------------------------------------

\* The reject guard letting an approved proposal be rejected.
reject_isPending_approved(change) == change.status \in {"pending", "approved"}

\* The guard `change.status !== 'pending'` of reject_change, negated.
reject_isPending(change) == change.status = "pending"

\* reject_change without the `if (!change)` answer: an id without a row goes
\* on to the UPDATE.
reject_change_noNotFound(h, changeId) ==
    /\ Accept(h)
    /\ IF ~PendingChangeExists(changeId)
       THEN Goto(h, "reject_update", changeId, NoChange, "")
       ELSE LET change == getPendingChangeById(changeId) IN
            IF ~reject_isPending(change)
            THEN Return(h, Response("reject_change", "conflict", TRUE, changeId,
                                    change.status))
            ELSE Goto(h, "reject_update", changeId, change, "")
    /\ UNCHANGED <<adsClient, keywords, campaigns, pending_changes, change_history,
                   apiCalls, clock>>
    /\ UNCHANGED analysisVars
    /\ UNCHANGED reportVars
    /\ UNCHANGED workerVars

\* await db.getPendingChangeById(changeId) and the two guards.
reject_change(h, changeId) ==
    /\ Accept(h)
    /\ IF ~PendingChangeExists(changeId)
       THEN Return(h, Response("reject_change", "not_found", TRUE, changeId, ""))
       ELSE LET change == getPendingChangeById(changeId) IN
            IF ~reject_isPending(change)
            THEN Return(h, Response("reject_change", "conflict", TRUE, changeId,
                                    change.status))
            ELSE Goto(h, "reject_update", changeId, change, "")
    /\ UNCHANGED <<adsClient, keywords, campaigns, pending_changes, change_history,
                   apiCalls, clock>>
    /\ UNCHANGED analysisVars
    /\ UNCHANGED reportVars
    /\ UNCHANGED workerVars

\* await db.updatePendingChangeStatus(changeId, 'rejected')
reject_update(h) ==
    /\ handler[h].pc = "reject_update"
    /\ pending_changes' = updatePendingChangeStatus(pending_changes, handler[h].changeId,
                                                    "rejected", Undefined, clock)
    /\ clock' = clock + 1
    /\ Return(h, Response("reject_change", "rejected", FALSE, handler[h].changeId, ""))
    /\ UNCHANGED <<requests, adsClient, keywords, campaigns, change_history, apiCalls>>
    /\ UNCHANGED analysisVars
    /\ UNCHANGED reportVars
    /\ UNCHANGED workerVars

\* --- sync worker ---------------------------------------------------

\* The sync worker (a separate process) writes the keyword it fetched.
syncKeywords(id, bid, state) ==
    /\ keywords' = upsertKeyword(keywords, id,
                                 [keywordText |-> "kw", state |-> state, bid |-> bid])
    /\ keywords' # keywords
    /\ requests < MaxRequests
    /\ requests' = requests + 1
    /\ UNCHANGED <<adsClient, campaigns, pending_changes, change_history, apiCalls,
                   clock, handler, result>>
    /\ UNCHANGED analysisVars
    /\ UNCHANGED reportVars
    /\ UNCHANGED workerVars

Next ==
    \/ \E h \in Handlers, k \in KeywordArgs, b \in NewBids, r \in Reasons :
          propose_bid_change(h, k, b, r)
    \/ \E h \in Handlers, k \in KeywordArgs, s \in NewStates, r \in Reasons :
          propose_keyword_state_change(h, k, s, r)
    \/ \E h \in Handlers, c \in CampaignArgs, b \in NewBudgets, r \in Reasons :
          propose_budget_change(h, c, b, r)
    \/ \E h \in Handlers, c \in CampaignArgs, t \in NegativeTexts, m \in MatchTypes,
          r \in Reasons :
          propose_negative_keyword(h, c, t, m, r)
    \/ \E h \in Handlers : propose_insert(h)
    \/ \E h \in Handlers, st \in ListStatusArgs : list_pending_changes(h, st)
    \/ \E h \in Handlers : \E id \in ChangeIdArgs : approve_change(h, id)
    \/ \E h \in Handlers : approve_recordOnly(h)
    \/ \E h \in Handlers : approve_execute(h, TRUE, "")
    \/ \E h \in Handlers, m \in BackendMessages : approve_execute(h, FALSE, m)
    \/ \E h \in Handlers : approve_markExecuted(h)
    \/ \E h \in Handlers : approve_historySuccess(h)
    \/ \E h \in Handlers : approve_markFailed(h)
    \/ \E h \in Handlers : approve_historyFailure(h)
    \/ \E h \in Handlers : \E id \in ChangeIdArgs : reject_change(h, id)
    \/ \E h \in Handlers : reject_update(h)
    \/ \E k \in KeywordIds, b \in StoredBids, s \in StoredStates : syncKeywords(k, b, s)

Spec == Init /\ [][Next]_vars

\* ------------------------------------------------------------------
\* Store errors: a query of the pool rejects and the statement has no effect
\* ------------------------------------------------------------------

\* The handler-wide catch: return { text: `Error: ${message}`, isError: true }.
ReturnError(h, message) == Return(h, Response("", "error", TRUE, handler[h].changeId, message))

\* The first query of a tool call rejects: the handler-wide catch answers.
firstQueryThrows(h, message) ==
    /\ Accept(h)
    /\ ReturnError(h, message)
    /\ UNCHANGED <<adsClient, keywords, campaigns, pending_changes, change_history,
                   apiCalls, clock>>
    /\ UNCHANGED analysisVars
    /\ UNCHANGED reportVars
    /\ UNCHANGED workerVars

\* A store query inside the try block of approve_change rejects: the inner
\* catch takes the error for an execution failure.
outcomeQueryThrows(h, message) ==
    /\ handler[h].pc \in {"approve_markExecuted", "approve_historySuccess"}
    /\ Goto(h, "approve_markFailed", handler[h].changeId, handler[h].change, message)
    /\ UNCHANGED <<requests, adsClient, keywords, campaigns, pending_changes,
                   change_history, apiCalls, clock>>
    /\ UNCHANGED analysisVars
    /\ UNCHANGED reportVars
    /\ UNCHANGED workerVars

\* Any other awaited store query rejects: the handler-wide catch answers.
laterQueryThrows(h, message) ==
    /\ handler[h].pc \in {"createPendingChange", "approve_recordOnly",
                          "approve_markFailed", "approve_historyFailure",
                          "reject_update"}
    /\ ReturnError(h, message)
    /\ UNCHANGED <<requests, adsClient, keywords, campaigns, pending_changes,
                   change_history, apiCalls, clock>>
    /\ UNCHANGED analysisVars
    /\ UNCHANGED reportVars
    /\ UNCHANGED workerVars

NextFault ==
    \/ Next
    \/ \E h \in Handlers, m \in StoreMessages : firstQueryThrows(h, m)
    \/ \E h \in Handlers, m \in StoreMessages : outcomeQueryThrows(h, m)
    \/ \E h \in Handlers, m \in StoreMessages : laterQueryThrows(h, m)

SpecFault == Init /\ [][NextFault]_vars

\* ------------------------------------------------------------------
\* Properties
\* ------------------------------------------------------------------

CallsFor(id) == {i \in DOMAIN apiCalls : apiCalls[i].changeId = id}
HistoryFor(id) == {i \in DOMAIN change_history : change_history[i].pendingChangeId = id}
Approved(h, id, outcomes) ==
    /\ result[h].tool = "approve_change"
    /\ result[h].changeId = id
    /\ result[h].outcome \in outcomes

\* C1: when approve operations on one pending proposal interleave, the backend
\* mutation is invoked at most once for the proposal, at most one
\* executed/failed outcome is recorded in the history, and two approve
\* operations never both report an execution outcome.
C1_SingleExecution ==
    \A id \in DOMAIN pending_changes :
        /\ Cardinality(CallsFor(id)) <= 1
        /\ Cardinality(HistoryFor(id)) <= 1
        /\ \A h, g \in Handlers :
              (h # g /\ Approved(h, id, {"executed", "failed"}))
                 => ~Approved(g, id, {"executed", "failed"})

LegalTransitions ==
    {<<"pending", "approved">>, <<"approved", "executed">>,
     <<"approved", "failed">>, <<"pending", "rejected">>}

\* C2: every change of a stored status is pending->approved,
\* approved->executed, approved->failed or pending->rejected.
C2_LegalTransitions ==
    [][\A id \in DOMAIN pending_changes :
          pending_changes'[id].status # pending_changes[id].status
             => <<pending_changes[id].status, pending_changes'[id].status>>
                   \in LegalTransitions]_vars

\* C3: when an approve and a reject of one pending proposal interleave, at
\* most one of them resolves it: a proposal whose reject reported success has
\* no backend mutation invoked for it, and no approve of it reports anything
\* but conflict.
C3_SingleResolution ==
    \A id \in DOMAIN pending_changes :
        \A h \in Handlers :
            (result[h].tool = "reject_change" /\ result[h].changeId = id
               /\ result[h].outcome = "rejected")
            => /\ CallsFor(id) = {}
               /\ \A g \in Handlers :
                     ~Approved(g, id, {"approved", "executed", "failed"})

Conflict(tool, id, status) == Response(tool, "conflict", TRUE, id, status)

\* C4: an approve of a stored proposal whose status is not pending answers
\* conflict with the stored status and changes neither the proposals (status,
\* timestamps, error text, payloads) nor the history, and calls no backend
\* mutation.
C4_ApproveConflict ==
    [][\A h \in Handlers : \A id \in DOMAIN pending_changes :
          (approve_change(h, id) /\ pending_changes[id].status # "pending")
             => /\ result'[h] = Conflict("approve_change", id, pending_changes[id].status)
                /\ handler'[h] = Idle
                /\ pending_changes' = pending_changes
                /\ apiCalls' = apiCalls
                /\ change_history' = change_history]_vars

C4_Witness ==
    \E h \in Handlers :
        /\ result[h].tool = "approve_change"
        /\ result[h].outcome = "conflict"
        /\ result[h].detail \in {"rejected", "executed", "failed", "approved"}
        /\ pending_changes[result[h].changeId].status = result[h].detail

\* C5: a reject of a stored proposal whose status is not pending answers
\* conflict with the stored status and changes nothing; a reject of a pending
\* proposal writes the status rejected and nothing else but the review time.
C5_RejectGuard ==
    [][\A h \in Handlers :
          /\ \A id \in DOMAIN pending_changes :
                (reject_change(h, id) /\ pending_changes[id].status # "pending")
                   => /\ result'[h] = Conflict("reject_change", id, pending_changes[id].status)
                      /\ handler'[h] = Idle
                      /\ pending_changes' = pending_changes
                      /\ apiCalls' = apiCalls
                      /\ change_history' = change_history
          /\ \A id \in DOMAIN pending_changes :
                (reject_change(h, id) /\ pending_changes[id].status = "pending")
                   => /\ handler'[h].pc = "reject_update"
                      /\ handler'[h].changeId = id
          /\ reject_update(h)
                => /\ pending_changes' =
                        [pending_changes EXCEPT ![handler[h].changeId] =
                            [@ EXCEPT !.status = "rejected", !.reviewedAt = clock]]
                   /\ result'[h].outcome = "rejected"
                   /\ ~result'[h].isError]_vars

C5_Witness ==
    /\ \E h \in Handlers :
          /\ result[h].tool = "reject_change"
          /\ result[h].outcome = "conflict"
          /\ pending_changes[result[h].changeId].status = result[h].detail
    /\ \E id \in DOMAIN pending_changes :
          /\ pending_changes[id].status = "rejected"
          /\ pending_changes[id].reviewedAt # NoTime

\* C6: every successful propose inserts one new proposal with status pending,
\* no review time, no execution time and no error text, and leaves the stored
\* proposals as they are.
C6_ProposeCreatesPending ==
    [][\A h \in Handlers :
          propose_insert(h)
             => LET n == Len(pending_changes') IN
                /\ n = Len(pending_changes) + 1
                /\ SubSeq(pending_changes', 1, n - 1) = pending_changes
                /\ pending_changes'[n].status = "pending"
                /\ pending_changes'[n].reviewedAt = NoTime
                /\ pending_changes'[n].executedAt = NoTime
                /\ pending_changes'[n].errorMessage = SqlNull
                /\ pending_changes'[n].changeType = handler[h].change.changeType
                /\ result'[h] = Response("propose", "proposed", FALSE, n, "")]_vars

C6_Witness ==
    /\ Len(pending_changes) >= 2
    /\ \A k \in {"bid_adjustment", "add_negative_keyword"} :
          \E id \in DOMAIN pending_changes :
             /\ pending_changes[id].changeType = k
             /\ pending_changes[id].status = "pending"

\* C7: with a backend configured, a proposal is executed only if a backend
\* mutation for it succeeded and failed only if a backend mutation for it
\* reported an error, also when store queries fail while the outcome is
\* recorded.
C7_StatusFollowsBackend ==
    \A id \in DOMAIN pending_changes :
        /\ pending_changes[id].status = "executed"
              => \E i \in CallsFor(id) : apiCalls[i].ok
        /\ pending_changes[id].status = "failed"
              => \E i \in CallsFor(id) : ~apiCalls[i].ok

\* C8: after the backend mutation of an approve succeeded, the approve writes
\* the status executed and appends exactly one history entry with success =
\* TRUE that names the proposal and carries the stored current-value snapshot
\* as old value and the stored proposed value as new value.
C8_SuccessRecorded ==
    [][\A h \in Handlers :
          LET id == handler[h].changeId IN
          /\ approve_execute(h, TRUE, "")
                => handler'[h].pc = "approve_markExecuted"
          /\ approve_markExecuted(h)
                => /\ pending_changes'[id].status = "executed"
                   /\ handler'[h].pc = "approve_historySuccess"
                   /\ change_history' = change_history
          /\ approve_historySuccess(h)
                => /\ Len(change_history') = Len(change_history) + 1
                   /\ SubSeq(change_history', 1, Len(change_history)) = change_history
                   /\ LET e == change_history'[Len(change_history')] IN
                      /\ e.success
                      /\ e.pendingChangeId = id
                      /\ e.oldValue = pending_changes[id].currentValue
                      /\ e.newValue = pending_changes[id].proposedValue
                      /\ e.targetId = pending_changes[id].targetId
                      /\ e.changeType = pending_changes[id].changeType
                   /\ result'[h] = Response("approve_change", "executed", FALSE, id, "")]_vars

C8_Witness ==
    \E h \in Handlers : \E id \in DOMAIN pending_changes :
        /\ Approved(h, id, {"executed"})
        /\ pending_changes[id].status = "executed"
        /\ pending_changes[id].currentValue # pending_changes[id].proposedValue
        /\ Cardinality({i \in HistoryFor(id) : change_history[i].success}) = 1

\* C9: after the backend mutation of an approve failed with a message, the
\* approve writes the status failed and that message into the error field of
\* the proposal, and appends exactly one history entry with success = FALSE
\* that carries the message.
C9_FailureRecorded ==
    [][\A h \in Handlers :
          LET id == handler[h].changeId
              msg == handler[h].errorMsg IN
          /\ approve_markFailed(h)
                => /\ pending_changes'[id].status = "failed"
                   /\ pending_changes'[id].errorMessage = msg
          /\ approve_historyFailure(h)
                => /\ Len(change_history') = Len(change_history) + 1
                   /\ LET e == change_history'[Len(change_history')] IN
                      /\ ~e.success
                      /\ e.pendingChangeId = id
                      /\ e.apiResponse = {<<"error", msg>>}]_vars

\* C10: without a backend, the approve of a pending proposal writes the status
\* approved, leaves execution time and error text unset, appends no history
\* entry, calls no backend mutation and answers without an error.
C10_RecordOnlyApproval ==
    [][~adsClient =>
         /\ apiCalls' = <<>>
         /\ change_history' = <<>>
         /\ \A h \in Handlers :
              /\ \A id \in DOMAIN pending_changes :
                    (approve_change(h, id) /\ pending_changes[id].status = "pending")
                       => handler'[h].pc = "approve_recordOnly"
              /\ approve_recordOnly(h)
                    => LET id == handler[h].changeId IN
                       /\ pending_changes'[id].status = "approved"
                       /\ pending_changes'[id].executedAt = NoTime
                       /\ pending_changes'[id].errorMessage = SqlNull
                       /\ result'[h] = Response("approve_change", "approved", FALSE, id, "")]_vars

C10_Witness ==
    /\ ~adsClient
    /\ \E h \in Handlers : \E id \in DOMAIN pending_changes :
          /\ Approved(h, id, {"approved"})
          /\ pending_changes[id].status = "approved"
          /\ pending_changes[id].reviewedAt # NoTime

\* ------------------------------------------------------------------
\* Approval gate, terminal statuses, dispatch, audit trail
\* ------------------------------------------------------------------

\* A step of a propose, list or reject operation of handler h.
ProposeListRejectStep(h) ==
    \/ \E k \in KeywordArgs, b \in NewBids, r \in Reasons : propose_bid_change(h, k, b, r)
    \/ \E k \in KeywordArgs, st \in NewStates, r \in Reasons :
          propose_keyword_state_change(h, k, st, r)
    \/ \E c \in CampaignArgs, b \in NewBudgets, r \in Reasons :
          propose_budget_change(h, c, b, r)
    \/ \E c \in CampaignArgs, t \in NegativeTexts, m \in MatchTypes, r \in Reasons :
          propose_negative_keyword(h, c, t, m, r)
    \/ propose_insert(h)
    \/ \E st \in ListStatusArgs : list_pending_changes(h, st)
    \/ \E id \in ChangeIdArgs : reject_change(h, id)
    \/ reject_update(h)

\* C11: a backend mutation is invoked only by an approve operation on the
\* proposal it is for, and that operation read the proposal in status pending;
\* a step of a propose, list or reject operation adds no backend call and
\* leaves the stored keywords and campaigns as they are, and the reject of a
\* proposal leaves it rejected.
C11_BackendOnlyOnApprove ==
    [][/\ apiCalls' # apiCalls =>
            \E h \in Handlers :
               /\ handler[h].pc = "approve_execute"
               /\ handler'[h].pc # "approve_execute"
               /\ handler[h].change.status = "pending"
               /\ Len(apiCalls') = Len(apiCalls) + 1
               /\ SubSeq(apiCalls', 1, Len(apiCalls)) = apiCalls
               /\ apiCalls'[Len(apiCalls')].changeId = handler[h].changeId
       /\ \A h \in Handlers :
            ProposeListRejectStep(h) =>
               /\ apiCalls' = apiCalls
               /\ keywords' = keywords
               /\ campaigns' = campaigns
       /\ \A h \in Handlers :
            reject_update(h) =>
               pending_changes'[handler[h].changeId].status = "rejected"]_vars

\* A bid change was proposed and then rejected: the proposal is rejected, no
\* backend call was made and the keyword's stored bid is the one it had.
C11_Witness ==
    \E h \in Handlers :
       /\ result[h].tool = "reject_change"
       /\ result[h].outcome = "rejected"
       /\ pending_changes[result[h].changeId].status = "rejected"
       /\ pending_changes[result[h].changeId].changeType = "bid_adjustment"
       /\ apiCalls = <<>>
       /\ keywords["k1"].bid = 110

TerminalStatuses == {"rejected", "executed", "failed"}

\* C12: a proposal whose status is rejected, executed or failed keeps that
\* status in every later step.
C12_TerminalIsFinal ==
    [][\A id \in DOMAIN pending_changes :
         pending_changes[id].status \in TerminalStatuses =>
            pending_changes'[id].status = pending_changes[id].status]_vars

\* ------------------------------------------------------------------
\* One tool call at a time: the caller awaits each answer before its next call
\* ------------------------------------------------------------------

AllIdle == \A h \in Handlers : handler[h].pc = "idle"

\* The steps of Next, a tool call (or a sync write) starting only while no call
\* is in flight.
NextSeq ==
    \/ AllIdle /\ \E h \in Handlers, k \in KeywordArgs, b \in NewBids, r \in Reasons :
          propose_bid_change(h, k, b, r)
    \/ AllIdle /\ \E h \in Handlers, k \in KeywordArgs, s \in NewStates, r \in Reasons :
          propose_keyword_state_change(h, k, s, r)
    \/ AllIdle /\ \E h \in Handlers, c \in CampaignArgs, b \in NewBudgets, r \in Reasons :
          propose_budget_change(h, c, b, r)
    \/ AllIdle /\ \E h \in Handlers, c \in CampaignArgs, t \in NegativeTexts,
                    m \in MatchTypes, r \in Reasons :
          propose_negative_keyword(h, c, t, m, r)
    \/ \E h \in Handlers : propose_insert(h)
    \/ AllIdle /\ \E h \in Handlers, st \in ListStatusArgs : list_pending_changes(h, st)
    \/ AllIdle /\ \E h \in Handlers : \E id \in ChangeIdArgs : approve_change(h, id)
    \/ \E h \in Handlers : approve_recordOnly(h)
    \/ \E h \in Handlers : approve_execute(h, TRUE, "")
    \/ \E h \in Handlers, m \in BackendMessages : approve_execute(h, FALSE, m)
    \/ \E h \in Handlers : approve_markExecuted(h)
    \/ \E h \in Handlers : approve_historySuccess(h)
    \/ \E h \in Handlers : approve_markFailed(h)
    \/ \E h \in Handlers : approve_historyFailure(h)
    \/ AllIdle /\ \E h \in Handlers : \E id \in ChangeIdArgs : reject_change(h, id)
    \/ \E h \in Handlers : reject_update(h)
    \/ AllIdle /\ \E k \in KeywordIds, b \in StoredBids, s \in StoredStates :
          syncKeywords(k, b, s)

SpecSeq == Init /\ [][NextSeq]_vars

\* C13: with operations executed one after the other, at most one backend
\* mutation call is ever made for one proposal, also after a failed execution;
\* one approve operation makes at most one call.
C13_NoRetry ==
    /\ \A id \in DOMAIN pending_changes : Cardinality(CallsFor(id)) <= 1
    /\ Len(apiCalls) <= requests

\* A proposal failed with its one backend call, and a later approve of it was
\* answered with a conflict and made no second call.
C13_Witness ==
    \E h \in Handlers :
       /\ AllIdle
       /\ result[h].tool = "approve_change"
       /\ result[h].outcome = "conflict"
       /\ result[h].detail = "failed"
       /\ pending_changes[result[h].changeId].status = "failed"
       /\ Cardinality(CallsFor(result[h].changeId)) = 1

\* C14: while an approve operation is about to invoke, or is invoking, the
\* backend mutation, the stored status of its proposal is no longer pending.
C14_StatusMovedBeforeBackend ==
    \A h \in Handlers :
       handler[h].pc = "approve_execute" =>
          pending_changes[handler[h].changeId].status # "pending"

\* The backend call each change kind stands for.
CallOfKind(kind) ==
    CASE kind = "bid_adjustment" -> "updateKeywordBid"
      [] kind = "state_change" -> "updateKeywordState"
      [] kind = "budget_change" -> "updateCampaignBudget"
      [] kind = "add_negative_keyword" -> "addNegativeKeyword"
      [] OTHER -> "none"

\* C15: the execution step of an approve operation makes exactly one backend
\* call, the one its proposal's kind stands for, with the stored target id and
\* the values of the stored proposed value; every stored proposal has one of
\* the four kinds and the unknown-kind branch is never taken.
C15_DispatchTotal ==
    [][/\ \A h \in Handlers :
            (handler[h].pc = "approve_execute" /\ handler'[h] # handler[h]) =>
               LET row == pending_changes[handler[h].changeId]
                   call == apiCalls'[Len(apiCalls')]
               IN /\ Len(apiCalls') = Len(apiCalls) + 1
                  /\ SubSeq(apiCalls', 1, Len(apiCalls)) = apiCalls
                  /\ call.changeId = handler[h].changeId
                  /\ call.op = CallOfKind(row.changeType)
                  /\ call.targetId = row.targetId
                  /\ Len(call.value) = Cardinality(row.proposedValue)
                  /\ \A p \in row.proposedValue :
                        \E i \in DOMAIN call.value : call.value[i] = p[2]
                  /\ handler'[h].errorMsg # "Unknown change type"
       /\ \A id \in DOMAIN pending_changes' :
            pending_changes'[id].changeType \in ChangeTypes]_vars

\* A proposed negative keyword was executed with the call of its kind, on its
\* campaign, with its text and match type.
C15_Witness ==
    /\ \E i \in DOMAIN apiCalls :
          /\ apiCalls[i].op = "addNegativeKeyword"
          /\ apiCalls[i].targetId = "c1"
          /\ apiCalls[i].value = <<"free", "negativeExact">>
          /\ pending_changes[apiCalls[i].changeId].changeType = "add_negative_keyword"

\* C16: with operations executed one after the other, the history log only
\* grows at its end, and whenever no operation is in flight every executed or
\* failed proposal has exactly one history entry and every pending, approved or
\* rejected proposal has none.
C16_HistoryOncePerAttempt ==
    [][/\ Len(change_history') >= Len(change_history)
       /\ SubSeq(change_history', 1, Len(change_history)) = change_history
       /\ (\A h \in Handlers : handler'[h].pc = "idle") =>
             \A id \in DOMAIN pending_changes' :
                IF pending_changes'[id].status \in {"executed", "failed"}
                THEN \E i \in DOMAIN change_history' :
                        /\ change_history'[i].pendingChangeId = id
                        /\ change_history'[i].success
                              = (pending_changes'[id].status = "executed")
                        /\ \A j \in DOMAIN change_history' :
                              change_history'[j].pendingChangeId = id => j = i
                ELSE \A i \in DOMAIN change_history' :
                        change_history'[i].pendingChangeId # id]_vars

\* One proposal was executed and has its one entry while a second proposal,
\* still pending, has none.
C16_Witness ==
    /\ AllIdle
    /\ Len(pending_changes) = 2
    /\ \E id \in DOMAIN pending_changes :
          /\ pending_changes[id].status = "executed"
          /\ Cardinality(HistoryFor(id)) = 1
    /\ \E id \in DOMAIN pending_changes :
          /\ pending_changes[id].status = "pending"
          /\ HistoryFor(id) = {}

\* The fields of a proposal fixed at its creation.
Created(row) ==
    [changeType |-> row.changeType, targetType |-> row.targetType,
     targetId |-> row.targetId, targetName |-> row.targetName,
     currentValue |-> row.currentValue, proposedValue |-> row.proposedValue,
     reason |-> row.reason, createdAt |-> row.createdAt]

\* C17: no step changes the change kind, target reference, current-value
\* snapshot, proposed-value snapshot, reason or creation timestamp of a stored
\* proposal, and no step removes a proposal; the steps of approve and reject
\* change only status, review timestamp, execution timestamp and error text.
C17_CreatedFieldsImmutable ==
    [][/\ Len(pending_changes') >= Len(pending_changes)
       /\ \A id \in DOMAIN pending_changes :
            Created(pending_changes'[id]) = Created(pending_changes[id])]_vars

\* A proposal went through an approve operation that stored an outcome with
\* its timestamps: its status, review and execution timestamps are set and the
\* fields of its creation are the ones proposed.
C17_Witness ==
    \E id \in DOMAIN pending_changes :
       /\ pending_changes[id].status = "failed"
       /\ pending_changes[id].errorMessage = "API Error: 400"
       /\ pending_changes[id].reviewedAt > pending_changes[id].createdAt
       /\ pending_changes[id].executedAt > pending_changes[id].createdAt
       /\ pending_changes[id].changeType = "budget_change"
       /\ pending_changes[id].currentValue = {<<"dailyBudget", 1000>>}
       /\ pending_changes[id].proposedValue = {<<"dailyBudget", 2000>>}

\* Handler h answers not-found in this step and the step changes nothing in
\* the store, at the backend or in the history.
NotFoundNoChange(h, tool) ==
    /\ result'[h].tool = tool
    /\ result'[h].outcome = "not_found"
    /\ result'[h].isError
    /\ handler'[h] = Idle
    /\ UNCHANGED <<pending_changes, change_history, apiCalls, keywords, campaigns>>

\* C18: an approve or reject naming an id without a stored proposal, and a
\* propose naming a keyword or campaign that is not stored, answers not-found
\* at once: no proposal is created or modified, no backend call is made and no
\* history entry is appended.
C18_NotFoundNoChange ==
    [][\A h \in Handlers :
         /\ \A id \in ChangeIdArgs \ DOMAIN pending_changes :
               /\ approve_change(h, id) => NotFoundNoChange(h, "approve_change")
               /\ reject_change(h, id) => NotFoundNoChange(h, "reject_change")
         /\ \A k \in KeywordArgs \ DOMAIN keywords, r \in Reasons :
               /\ \A b \in NewBids :
                     propose_bid_change(h, k, b, r)
                        => NotFoundNoChange(h, "propose_bid_change")
               /\ \A st \in NewStates :
                     propose_keyword_state_change(h, k, st, r)
                        => NotFoundNoChange(h, "propose_keyword_state_change")
         /\ \A c \in CampaignArgs \ DOMAIN campaigns, r \in Reasons :
               /\ \A b \in NewBudgets :
                     propose_budget_change(h, c, b, r)
                        => NotFoundNoChange(h, "propose_budget_change")
               /\ \A t \in NegativeTexts, m \in MatchTypes :
                     propose_negative_keyword(h, c, t, m, r)
                        => NotFoundNoChange(h, "propose_negative_keyword")]_vars

\* A reject and a propose were answered not-found while one proposal is
\* stored, still pending and untouched.
C18_Witness ==
    /\ result["h1"].tool = "reject_change"
    /\ result["h1"].outcome = "not_found"
    /\ result["h1"].changeId \notin DOMAIN pending_changes
    /\ result["h2"].tool = "propose_budget_change"
    /\ result["h2"].outcome = "not_found"
    /\ Len(pending_changes) = 1
    /\ pending_changes[1].status = "pending"
    /\ pending_changes[1].reviewedAt = NoTime
    /\ apiCalls = <<>>
    /\ change_history = <<>>

\* ------------------------------------------------------------------
\* Approvals of different proposals: the server starts on a store that holds
\* two pending proposals of an earlier run
\* ------------------------------------------------------------------

\* pending_changes after a bid change of k1 and a budget change of c1 were
\* proposed.
StoredProposals ==
    createPendingChange(
        createPendingChange(<<>>,
            Draft("bid_adjustment", "keyword", "k1", "kw",
                  {<<"bid", 110>>}, {<<"bid", 85>>}, "high acos"), 1),
        Draft("budget_change", "campaign", "c1", "camp",
              {<<"dailyBudget", 1000>>}, {<<"dailyBudget", 2000>>}, "high acos"), 2)

InitStored ==
    /\ adsClient \in BOOLEAN
    /\ keywords = [k \in KeywordIds |-> [keywordText |-> "kw", state |-> "enabled", bid |-> 110]]
    /\ campaigns = [c \in CampaignIds |-> [name |-> "camp", dailyBudget |-> 1000]]
    /\ pending_changes = StoredProposals
    /\ change_history = <<>>
    /\ apiCalls = <<>>
    /\ clock = 3
    /\ requests = 0
    /\ handler = [h \in Handlers |-> Idle]
    /\ result = [h \in Handlers |-> NoResponse]
    /\ AnalysisIdle
    /\ ReportsIdle
    /\ WorkerIdle

\* No approve operation in flight is on proposal id.
NotInFlight(id) == \A h \in Handlers : handler[h].pc = "idle" \/ handler[h].changeId # id

\* The steps of approve_change, an approval starting only on a proposal no
\* approval in flight is on.
NextDistinct ==
    \/ \E h \in Handlers : \E id \in DOMAIN pending_changes :
          NotInFlight(id) /\ approve_change(h, id)
    \/ \E h \in Handlers : approve_recordOnly(h)
    \/ \E h \in Handlers : approve_execute(h, TRUE, "")
    \/ \E h \in Handlers, m \in BackendMessages : approve_execute(h, FALSE, m)
    \/ \E h \in Handlers : approve_markExecuted(h)
    \/ \E h \in Handlers : approve_historySuccess(h)
    \/ \E h \in Handlers : approve_markFailed(h)
    \/ \E h \in Handlers : approve_historyFailure(h)

SpecDistinct == InitStored /\ [][NextDistinct]_vars

\* What an approval of proposal id running alone leaves: the proposal as
\* stored if it has not run; approved without a call and without an entry if
\* there is no backend; else one call of the proposal's own kind, target and
\* value, and one entry of its own values, executed with a success entry if
\* the call resolved, and failed with the call's message if it threw.
AsIfAlone(id) ==
    LET row == pending_changes[id]
        call == apiCalls[CHOOSE i \in CallsFor(id) : TRUE]
        entry == change_history[CHOOSE i \in HistoryFor(id) : TRUE]
    IN /\ Created(row) = Created(StoredProposals[id])
       /\ row.status \in {"pending", "approved", "executed", "failed"}
       /\ row.status = "pending" =>
             /\ row = StoredProposals[id]
             /\ CallsFor(id) = {} /\ HistoryFor(id) = {}
       /\ row.status = "approved" =>
             /\ ~adsClient
             /\ row.errorMessage = SqlNull /\ row.executedAt = NoTime
             /\ CallsFor(id) = {} /\ HistoryFor(id) = {}
       /\ row.status \in {"executed", "failed"} =>
             /\ adsClient
             /\ Cardinality(CallsFor(id)) = 1
             /\ Cardinality(HistoryFor(id)) = 1
             /\ call.op = CallOfKind(row.changeType)
             /\ call.targetId = row.targetId
             /\ \A p \in row.proposedValue : call.value = <<p[2]>>
             /\ call.ok = (row.status = "executed")
             /\ entry.success = call.ok
             /\ entry.targetId = row.targetId
             /\ entry.changeType = row.changeType
             /\ entry.oldValue = row.currentValue
             /\ entry.newValue = row.proposedValue
             /\ entry.executedAt > row.executedAt
             /\ IF call.ok
                THEN row.errorMessage = SqlNull /\ entry.apiResponse = JsonNull
                ELSE \E m \in BackendMessages :
                        /\ entry.apiResponse = {<<"error", m>>}
                        /\ row.errorMessage = IF Truthy(m) THEN m ELSE SqlNull

\* C19: in every interleaving of approvals of the two proposals, a proposal no
\* approval in flight is on is as an approval of it running alone leaves it:
\* its status, backend call and history entry come from its own approval only.
C19_DistinctIndependent ==
    \A id \in DOMAIN pending_changes : NotInFlight(id) => AsIfAlone(id)

\* The approvals of the two proposals overlapped and ended differently: one
\* executed, the other failed.
C19_Witness ==
    /\ AllIdle
    /\ pending_changes[1].status = "executed"
    /\ pending_changes[2].status = "failed"
    /\ pending_changes[1].reviewedAt > pending_changes[2].reviewedAt
    /\ apiCalls[1].changeId = 1
    /\ AsIfAlone(1)
    /\ AsIfAlone(2)

\* ------------------------------------------------------------------
\* Listing
\* ------------------------------------------------------------------

\* rows lists exactly the proposals of table with their id in S, each once,
\* newest first.
ListsNewestFirst(rows, table, S) ==
    /\ {rows[i] : i \in DOMAIN rows} = S
    /\ Len(rows) = Cardinality(S)
    /\ \A i, j \in DOMAIN rows :
          i < j => table[rows[i]].createdAt >= table[rows[j]].createdAt

WithStatus(table, status) == {id \in DOMAIN table : table[id].status = status}

\* C20 as stated: a list operation answers with exactly the stored proposals
\* of the given status, all stored proposals when no status is given, newest
\* first.
C20_ListAllWithoutStatus ==
    [][\A h \in Handlers, st \in ListStatusArgs :
         list_pending_changes(h, st) =>
            ListsNewestFirst(result'[h].rows, pending_changes,
                             IF st = Undefined
                             THEN DOMAIN pending_changes
                             ELSE WithStatus(pending_changes, st))]_vars

\* C20 amended: a list operation answers with exactly the stored proposals of
\* the given status, and with those of status pending when no status is
\* given, newest first; the store query behind it, getPendingChanges, returns
\* exactly the proposals of the given status, and all of them when called
\* without a status, newest first.
C20_ListPendingWithoutStatus ==
    [][/\ \A h \in Handlers, st \in ListStatusArgs :
            list_pending_changes(h, st) =>
               /\ result'[h].tool = "list_pending_changes"
               /\ ~result'[h].isError
               /\ ListsNewestFirst(result'[h].rows, pending_changes,
                                   IF st = Undefined
                                   THEN WithStatus(pending_changes, "pending")
                                   ELSE WithStatus(pending_changes, st))
       /\ \A st \in ListStatusArgs :
            ListsNewestFirst(getPendingChanges(pending_changes', st), pending_changes',
                             IF st = Undefined
                             THEN DOMAIN pending_changes'
                             ELSE WithStatus(pending_changes', st))]_vars

\* A list was answered while two pending proposals are stored: the answer
\* holds both, the one created last first.
C20_Witness ==
    \E h \in Handlers :
       /\ result[h].tool = "list_pending_changes"
       /\ result[h].detail = "pending"
       /\ result[h].rows = <<2, 1>>
       /\ pending_changes[2].createdAt > pending_changes[1].createdAt
       /\ pending_changes[1].status = "pending"
       /\ pending_changes[2].status = "pending"

\* ------------------------------------------------------------------
\* Metrics store: campaign_metrics, UNIQUE(campaign_id, date)
\* ------------------------------------------------------------------

allVars == <<vars, analysisVars, reportVars, workerVars>>

\* An optional number of a CampaignMetrics object (kenpRoyalties?,
\* kenpPagesRead?) and a nullable numeric column: a number, undefined or NULL.
Num(n) == [kind |-> "number", val |-> n]
UndefinedNum == [kind |-> "undefined", val |-> 0]
NullNum == [kind |-> "null", val |-> 0]

\* `x ?? null`
OrNull(x) == IF x.kind \in {"undefined", "null"} THEN NullNum ELSE x

\* Amounts are in cents (spend, sales and kenp_royalties are DECIMAL(10, 2)),
\* dates are day numbers.
MaxFetched == 3
MetricCampaigns == {"c1", "c2"}
MetricDates == {1, 2}
MetricCounts ==
    { [impressions |-> 1000, clicks |-> 10, spend |-> 250, sales |-> 999, orders |-> 1,
       unitsSold |-> 1, kenpRoyalties |-> UndefinedNum, kenpPagesRead |-> UndefinedNum],
      [impressions |-> 0, clicks |-> 0, spend |-> 0, sales |-> 0, orders |-> 0,
       unitsSold |-> 0, kenpRoyalties |-> Num(0), kenpPagesRead |-> Num(0)],
      [impressions |-> 2000, clicks |-> 20, spend |-> 500, sales |-> 0, orders |-> 0,
       unitsSold |-> 0, kenpRoyalties |-> Num(150), kenpPagesRead |-> Num(300)],
      [impressions |-> 500, clicks |-> 0, spend |-> 0, sales |-> 1499, orders |-> 1,
       unitsSold |-> 2, kenpRoyalties |-> UndefinedNum, kenpPagesRead |-> UndefinedNum] }

\* The CampaignMetrics objects the client can fetch.
FetchedMetrics ==
    { [campaignId |-> c, date |-> d] @@ n :
        c \in MetricCampaigns, d \in MetricDates, n \in MetricCounts }

SeqsUpTo(S, n) == UNION { [1..k -> S] : k \in 0..n }

SameKey(a, b) == a.campaignId = b.campaignId /\ a.date = b.date

\* The values $1..$10 of the statement.
MetricsRow(m) ==
    [campaignId |-> m.campaignId, date |-> m.date, impressions |-> m.impressions,
     clicks |-> m.clicks, spend |-> m.spend, sales |-> m.sales, orders |-> m.orders,
     unitsSold |-> m.unitsSold, kenpRoyalties |-> OrNull(m.kenpRoyalties),
     kenpPagesRead |-> OrNull(m.kenpPagesRead)]

\* INSERT ... ON CONFLICT(campaign_id, date) DO NOTHING.
upsertCampaignMetrics_doNothing(table, m) ==
    IF \E i \in DOMAIN table : SameKey(table[i], m)
    THEN table
    ELSE Append(table, MetricsRow(m))

\* INSERT INTO campaign_metrics ... ON CONFLICT(campaign_id, date) DO UPDATE SET
\* the eight metric columns.
upsertCampaignMetrics(table, m) ==
    IF \E i \in DOMAIN table : SameKey(table[i], m)
    THEN [i \in DOMAIN table |->
            IF SameKey(table[i], m)
            THEN [table[i] EXCEPT !.impressions = m.impressions, !.clicks = m.clicks,
                                  !.spend = m.spend, !.sales = m.sales,
                                  !.orders = m.orders, !.unitsSold = m.unitsSold,
                                  !.kenpRoyalties = OrNull(m.kenpRoyalties),
                                  !.kenpPagesRead = OrNull(m.kenpPagesRead)]
            ELSE table[i]]
    ELSE Append(table, MetricsRow(m))

\* The sync worker has fetched the metrics of the date range.
InitMetrics ==
    /\ adsClient = TRUE
    /\ keywords = [k \in KeywordIds |-> [keywordText |-> "kw", state |-> "enabled", bid |-> 110]]
    /\ campaigns = [c \in CampaignIds |-> [name |-> "camp", dailyBudget |-> 1000]]
    /\ pending_changes = <<>>
    /\ change_history = <<>>
    /\ apiCalls = <<>>
    /\ clock = 1
    /\ requests = 0
    /\ handler = [h \in Handlers |-> Idle]
    /\ result = [h \in Handlers |-> NoResponse]
    /\ campaign_metrics = <<>>
    /\ metrics \in SeqsUpTo(FetchedMetrics, MaxFetched)
    /\ previousMetrics = <<>>
    /\ config = <<>>
    /\ roi = <<>>
    /\ previousRoi = <<>>
    /\ comparison = <<>>
    /\ totals = <<>>
    /\ synced = 0
    /\ ReportsIdle
    /\ WorkerIdle

\* for (const metric of metrics) { await db.upsertCampaignMetrics(metric); }:
\* one turn of the loop.
syncMetrics ==
    /\ synced < Len(metrics)
    /\ campaign_metrics' = upsertCampaignMetrics(campaign_metrics, metrics[synced + 1])
    /\ synced' = synced + 1
    /\ UNCHANGED <<metrics, previousMetrics, config, roi, previousRoi, comparison,
                   totals>>
    /\ UNCHANGED vars
    /\ UNCHANGED reportVars
    /\ UNCHANGED workerVars

NextMetrics == syncMetrics

SpecMetrics == InitMetrics /\ [][NextMetrics]_allVars

\* The last of the metrics upserted so far that has the key of row.
LastUpserted(row) ==
    LET S == {k \in 1..synced : SameKey(metrics[k], row)}
    IN metrics[CHOOSE k \in S : \A l \in S : l <= k]

\* The metric fields of a record, an absent optional field read as NULL.
MetricFields(r) ==
    <<r.impressions, r.clicks, r.spend, r.sales, r.orders, r.unitsSold,
      IF r.kenpRoyalties.kind = "number" THEN <<r.kenpRoyalties.val>> ELSE <<>>,
      IF r.kenpPagesRead.kind = "number" THEN <<r.kenpPagesRead.val>> ELSE <<>>>>

\* C21: after any sequence of metric upserts the store holds at most one
\* record per (campaign, date); a key has a record exactly if a record of that
\* key was upserted, and the record holds the values of the last one upserted
\* for the key, whatever was upserted for other keys.
C21_LastWriteWins ==
    /\ \A i, j \in DOMAIN campaign_metrics :
          SameKey(campaign_metrics[i], campaign_metrics[j]) => i = j
    /\ \A k \in 1..synced :
          \E i \in DOMAIN campaign_metrics : SameKey(campaign_metrics[i], metrics[k])
    /\ \A i \in DOMAIN campaign_metrics :
          /\ \E k \in 1..synced : SameKey(metrics[k], campaign_metrics[i])
          /\ MetricFields(campaign_metrics[i])
                = MetricFields(LastUpserted(campaign_metrics[i]))

\* The same key was upserted twice with different values, with another key
\* in between: the store holds two records.
C21_Witness ==
    /\ synced = 3
    /\ SameKey(metrics[1], metrics[3])
    /\ ~SameKey(metrics[1], metrics[2])
    /\ MetricFields(metrics[1]) # MetricFields(metrics[3])
    /\ Len(campaign_metrics) = 2
    /\ campaign_metrics[1].spend = metrics[3].spend

\* ------------------------------------------------------------------
\* Numbers of the analysis: a JavaScript number is the exact fraction <<n, d>>
\* in lowest terms with d > 0; a division by zero gives <<1, 0>> (Infinity),
\* <<-1, 0>> (-Infinity) or <<0, 0>> (NaN), as it does in JavaScript.
\* ------------------------------------------------------------------

Abs(n) == IF n < 0 THEN 0 - n ELSE n

RECURSIVE Gcd(_, _)
Gcd(a, b) == IF b = 0 THEN a ELSE Gcd(b, a % b)

Sign(n) == IF n > 0 THEN 1 ELSE IF n < 0 THEN 0 - 1 ELSE 0

\* The number n / d.
Frac(n, d) ==
    IF d = 0 THEN <<Sign(n), 0>>
    ELSE LET g == Gcd(Abs(n), Abs(d))
         IN <<Sign(d) * Sign(n) * (Abs(n) \div g), Abs(d) \div g>>

Whole(n) == <<n, 1>>
Zero == Whole(0)
IsFinite(x) == x[2] > 0
IsNaN(x) == x = <<0, 0>>

\* x + y, x - y, x * y, x / y and x > 0; a NaN operand gives NaN (and false).
Plus(x, y) ==
    IF IsFinite(x) /\ IsFinite(y)
    THEN LET g == Gcd(x[2], y[2])
         IN Frac(x[1] * (y[2] \div g) + y[1] * (x[2] \div g), (x[2] \div g) * y[2])
    ELSE IF IsNaN(x) \/ IsNaN(y) \/ (~IsFinite(x) /\ ~IsFinite(y) /\ x # y) THEN <<0, 0>>
    ELSE IF IsFinite(x) THEN y ELSE x
Negate(x) == <<0 - x[1], x[2]>>
Minus(x, y) == Plus(x, Negate(y))
Times(x, y) ==
    IF IsFinite(x) /\ IsFinite(y)
    THEN LET g == Gcd(Abs(x[1]), y[2])
             h == Gcd(Abs(y[1]), x[2])
         IN Frac((x[1] \div g) * (y[1] \div h), (x[2] \div h) * (y[2] \div g))
    ELSE <<Sign(x[1]) * Sign(y[1]), 0>>
Over(x, y) ==
    IF IsFinite(x) /\ IsFinite(y)
    THEN IF y[1] = 0 THEN <<Sign(x[1]), 0>>
         ELSE Times(x, <<Sign(y[1]) * y[2], Abs(y[1])>>)
    ELSE IF IsFinite(y) /\ ~IsNaN(x) THEN <<x[1] * (IF y[1] < 0 THEN 0 - 1 ELSE 1), 0>>
    ELSE IF IsFinite(x) /\ ~IsNaN(y) THEN Zero
    ELSE <<0, 0>>
Positive(x) == x[1] > 0
Less(x, y) ==
    IF IsFinite(x) /\ IsFinite(y)
    THEN LET g == Gcd(x[2], y[2])
         IN x[1] * (y[2] \div g) < y[1] * (x[2] \div g)
    ELSE ~IsNaN(x) /\ ~IsNaN(y) /\ x # y /\ (x = <<0 - 1, 0>> \/ y = <<1, 0>>)

\* ------------------------------------------------------------------
\* ROI calculator: aggregateMetrics, calculateROI
\* ------------------------------------------------------------------

\* `x ?? 0`
OrZero(x) == IF x.kind = "number" THEN x.val ELSE 0

ZeroTotals ==
    [impressions |-> 0, clicks |-> 0, spend |-> 0, sales |-> 0, orders |-> 0,
     unitsSold |-> 0, kenpRoyalties |-> 0]

\* metrics.reduce((acc, m) => ({...}), {all 0}), from the first element on.
RECURSIVE aggregateMetrics(_)
aggregateMetrics(ms) ==
    IF ms = <<>> THEN ZeroTotals
    ELSE LET acc == aggregateMetrics(SubSeq(ms, 1, Len(ms) - 1))
             m == ms[Len(ms)]
         IN [impressions |-> acc.impressions + m.impressions,
             clicks |-> acc.clicks + m.clicks,
             spend |-> acc.spend + m.spend,
             sales |-> acc.sales + m.sales,
             orders |-> acc.orders + m.orders,
             unitsSold |-> acc.unitsSold + m.unitsSold,
             kenpRoyalties |-> acc.kenpRoyalties + OrZero(m.kenpRoyalties)]

\* The period of an empty input: { startDate: '', endDate: '' }; dates are day
\* numbers from 1 on, and the date '' is written 0.
EmptyPeriod == [startDate |-> 0, endDate |-> 0]

\* The five ratios of calculateROI, of the totals agg.
acos(agg) ==
    IF agg.sales > 0 THEN Times(Over(Whole(agg.spend), Whole(agg.sales)), Whole(100))
    ELSE Zero

\* roas dividing sales by spend without the test of spend.
roas_unguarded(agg) == Over(Whole(agg.sales), Whole(agg.spend))

roas(agg) == IF agg.spend > 0 THEN Over(Whole(agg.sales), Whole(agg.spend)) ELSE Zero

ctr(agg) ==
    IF agg.impressions > 0
    THEN Times(Over(Whole(agg.clicks), Whole(agg.impressions)), Whole(100))
    ELSE Zero

\* cpc dividing spend by clicks without the test of clicks.
cpc_unguarded(agg) == Over(Whole(agg.spend), Whole(agg.clicks))

cpc(agg) == IF agg.clicks > 0 THEN Over(Whole(agg.spend), Whole(agg.clicks)) ELSE Zero

\* Orders per impression instead of orders per click.
conversionRate_ofImpressions(agg) ==
    IF agg.clicks > 0
    THEN Times(Over(Whole(agg.orders), Whole(agg.impressions)), Whole(100))
    ELSE Zero

conversionRate(agg) ==
    IF agg.clicks > 0 THEN Times(Over(Whole(agg.orders), Whole(agg.clicks)), Whole(100))
    ELSE Zero

\* Royalties of the units sold alone.
totalRoyalties_salesOnly(agg, cfg) == agg.unitsSold * cfg.royaltyPerSale

\* salesRoyalties + agg.kenpRoyalties
totalRoyalties(agg, cfg) == agg.unitsSold * cfg.royaltyPerSale + agg.kenpRoyalties

profit(agg, cfg) == totalRoyalties(agg, cfg) - agg.spend

profitMargin(agg, cfg) ==
    IF totalRoyalties(agg, cfg) > 0
    THEN Times(Over(Whole(profit(agg, cfg)), Whole(totalRoyalties(agg, cfg))), Whole(100))
    ELSE Zero

\* breakEvenAcos with the default 30 whatever the royalty per sale.
breakEvenAcos_default30(agg, cfg) ==
    IF agg.sales > 0
    THEN Times(Over(Whole(totalRoyalties(agg, cfg)), Whole(agg.sales)), Whole(100))
    ELSE Whole(30)

breakEvenAcos(agg, cfg) ==
    IF agg.sales > 0
    THEN Times(Over(Whole(totalRoyalties(agg, cfg)), Whole(agg.sales)), Whole(100))
    ELSE IF cfg.royaltyPerSale > 0 THEN Whole(30) ELSE Zero

\* The first and the last element's date.
dateRange(ms) ==
    IF Len(ms) > 0
    THEN [startDate |-> ms[1].date, endDate |-> ms[Len(ms)].date]
    ELSE EmptyPeriod

\* calculateROI: the report of the totals, the ratios, royalties, profit,
\* margin, break-even ACOS and the period.
calculateROI(campaignId, campaignName, ms, cfg) ==
    LET agg == aggregateMetrics(ms)
    IN [campaignId |-> campaignId, campaignName |-> campaignName,
        period |-> dateRange(ms),
        totalSpend |-> Whole(agg.spend), totalSales |-> Whole(agg.sales),
        totalOrders |-> Whole(agg.orders), totalUnitsSold |-> Whole(agg.unitsSold),
        totalImpressions |-> Whole(agg.impressions), totalClicks |-> Whole(agg.clicks),
        acos |-> acos(agg),
        roas |-> roas(agg),
        ctr |-> ctr(agg),
        cpc |-> cpc(agg),
        conversionRate |-> conversionRate(agg),
        estimatedRoyalties |-> Whole(totalRoyalties(agg, cfg)),
        estimatedProfit |-> Whole(profit(agg, cfg)),
        profitMargin |-> profitMargin(agg, cfg),
        breakEvenAcos |-> breakEvenAcos(agg, cfg)]

\* The AnalysisConfig values: royaltyPerSale in cents.
Configs == {[royaltyPerSale |-> 0], [royaltyPerSale |-> 280]}

\* A caller holds the metrics of a query window and a configuration.
InitROI ==
    /\ adsClient = TRUE
    /\ keywords = [k \in KeywordIds |-> [keywordText |-> "kw", state |-> "enabled", bid |-> 110]]
    /\ campaigns = [c \in CampaignIds |-> [name |-> "camp", dailyBudget |-> 1000]]
    /\ pending_changes = <<>>
    /\ change_history = <<>>
    /\ apiCalls = <<>>
    /\ clock = 1
    /\ requests = 0
    /\ handler = [h \in Handlers |-> Idle]
    /\ result = [h \in Handlers |-> NoResponse]
    /\ campaign_metrics = <<>>
    /\ metrics \in SeqsUpTo(FetchedMetrics, MaxFetched)
    /\ previousMetrics = <<>>
    /\ config \in Configs
    /\ roi = <<>>
    /\ previousRoi = <<>>
    /\ comparison = <<>>
    /\ totals = <<>>
    /\ synced = 0
    /\ ReportsIdle
    /\ WorkerIdle

\* const roi = calculateROI(campaignId, campaignName, metrics, config)
callCalculateROI ==
    /\ roi = <<>>
    /\ roi' = <<calculateROI("c1", "camp", metrics, config)>>
    /\ UNCHANGED <<campaign_metrics, metrics, previousMetrics, config, previousRoi,
                   comparison, totals, synced>>
    /\ UNCHANGED vars
    /\ UNCHANGED reportVars
    /\ UNCHANGED workerVars

NextROI == callCalculateROI

SpecROI == InitROI /\ [][NextROI]_allVars

\* The sum of a sequence of integers.
RECURSIVE SeqSum(_)
SeqSum(q) == IF q = <<>> THEN 0 ELSE q[1] + SeqSum(Tail(q))

\* The totals of the input of calculateROI.
TotalImpressions == SeqSum([i \in DOMAIN metrics |-> metrics[i].impressions])
TotalClicks == SeqSum([i \in DOMAIN metrics |-> metrics[i].clicks])
TotalSpend == SeqSum([i \in DOMAIN metrics |-> metrics[i].spend])
TotalSales == SeqSum([i \in DOMAIN metrics |-> metrics[i].sales])
TotalOrders == SeqSum([i \in DOMAIN metrics |-> metrics[i].orders])
TotalUnitsSold == SeqSum([i \in DOMAIN metrics |-> metrics[i].unitsSold])
TotalKenpRoyalties ==
    SeqSum([i \in DOMAIN metrics |->
              IF metrics[i].kenpRoyalties.kind = "number"
              THEN metrics[i].kenpRoyalties.val ELSE 0])

\* C22: for all non-negative totals, ACOS = spend / sales * 100, ROAS = sales /
\* spend, CTR = clicks / impressions * 100, CPC = spend / clicks and conversion
\* rate = orders / clicks * 100 when the denominator is positive, and each is
\* exactly 0 when its denominator is 0; no ratio is the result of a division
\* by zero; total spend 0 gives ROAS 0 and CPC 0.
C22_Ratios ==
    roi # <<>> =>
       LET r == roi[1] IN
       /\ r.acos = IF TotalSales > 0 THEN Frac(TotalSpend * 100, TotalSales) ELSE Zero
       /\ r.roas = IF TotalSpend > 0 THEN Frac(TotalSales, TotalSpend) ELSE Zero
       /\ r.ctr = IF TotalImpressions > 0
                  THEN Frac(TotalClicks * 100, TotalImpressions) ELSE Zero
       /\ r.cpc = IF TotalClicks > 0 THEN Frac(TotalSpend, TotalClicks) ELSE Zero
       /\ r.conversionRate = IF TotalClicks > 0
                             THEN Frac(TotalOrders * 100, TotalClicks) ELSE Zero
       /\ \A x \in {r.acos, r.roas, r.ctr, r.cpc, r.conversionRate} : IsFinite(x)
       /\ TotalSpend = 0 => r.roas = Zero /\ r.cpc = Zero

\* A report of records with sales and impressions but no spend and no click:
\* ROAS, CPC and conversion rate are 0.
C22_Witness ==
    /\ roi # <<>>
    /\ Len(metrics) = 2
    /\ TotalSpend = 0 /\ TotalClicks = 0
    /\ TotalSales > 0 /\ TotalImpressions > 0
    /\ roi[1].roas = Zero
    /\ roi[1].cpc = Zero
    /\ roi[1].conversionRate = Zero

\* Royalties of the input under the configuration: units sold * royaltyPerSale
\* + page-read royalty, an absent page-read royalty counted as 0.
EstimatedRoyalties == TotalUnitsSold * config.royaltyPerSale + TotalKenpRoyalties

\* C23: break-even ACOS = estimated royalties / sales * 100 when total sales >
\* 0, 30 when total sales = 0 and royaltyPerSale > 0, and 0 otherwise; with
\* total sales = 0, ACOS = 0.
C23_BreakEvenAcos ==
    roi # <<>> =>
       LET r == roi[1] IN
       /\ r.breakEvenAcos =
             IF TotalSales > 0 THEN Frac(EstimatedRoyalties * 100, TotalSales)
             ELSE IF config.royaltyPerSale > 0 THEN Whole(30)
             ELSE Zero
       /\ IsFinite(r.breakEvenAcos)
       /\ TotalSales = 0 => r.acos = Zero

\* A report of records with spend but no sales under a positive royalty:
\* break-even ACOS is 30 and ACOS is 0.
C23_Witness ==
    /\ roi # <<>>
    /\ Len(metrics) > 0
    /\ TotalSales = 0
    /\ TotalSpend > 0
    /\ config.royaltyPerSale > 0
    /\ roi[1].breakEvenAcos = Whole(30)
    /\ roi[1].acos = Zero

\* The totals of report r are all 0.
ZeroReportTotals(r) ==
    /\ r.totalSpend = Zero /\ r.totalSales = Zero /\ r.totalOrders = Zero
    /\ r.totalUnitsSold = Zero /\ r.totalImpressions = Zero /\ r.totalClicks = Zero
    /\ r.estimatedRoyalties = Zero /\ r.estimatedProfit = Zero

\* C24 as stated: the report of zero records has all-zero totals and every
\* derived ratio, break-even ACOS included, is 0 under every configuration.
C24_EmptyAllZero ==
    (roi # <<>> /\ metrics = <<>>) =>
       LET r == roi[1] IN
       /\ aggregateMetrics(metrics) = ZeroTotals
       /\ ZeroReportTotals(r)
       /\ r.acos = Zero /\ r.roas = Zero /\ r.ctr = Zero /\ r.cpc = Zero
       /\ r.conversionRate = Zero /\ r.profitMargin = Zero
       /\ r.breakEvenAcos = Zero

\* C24 amended: the report of zero records has all-zero totals; ACOS, ROAS,
\* CTR, CPC, conversion rate and profit margin are 0 under every
\* configuration, and break-even ACOS is 30 when royaltyPerSale > 0 and 0
\* otherwise.
C24_EmptyZeroButBreakEven ==
    (roi # <<>> /\ metrics = <<>>) =>
       LET r == roi[1] IN
       /\ aggregateMetrics(metrics) = ZeroTotals
       /\ ZeroReportTotals(r)
       /\ r.acos = Zero /\ r.roas = Zero /\ r.ctr = Zero /\ r.cpc = Zero
       /\ r.conversionRate = Zero /\ r.profitMargin = Zero
       /\ r.breakEvenAcos = IF config.royaltyPerSale > 0 THEN Whole(30) ELSE Zero

\* The report of zero records under a positive royalty per sale.
C24_Witness ==
    /\ roi # <<>>
    /\ metrics = <<>>
    /\ config.royaltyPerSale = 280
    /\ roi[1].breakEvenAcos = Whole(30)
    /\ roi[1].profitMargin = Zero
    /\ roi[1].estimatedProfit = Zero

\* The dates present in the input.
DatesPresent == {metrics[i].date : i \in DOMAIN metrics}

\* C25: the period of a report is the least and the greatest date present in
\* the input records, in whatever order the records are given; the period of
\* the report of an empty input is empty.
C25_PeriodIsMinMax ==
    roi # <<>> =>
       IF metrics = <<>>
       THEN roi[1].period = EmptyPeriod
       ELSE /\ roi[1].period.startDate \in DatesPresent
            /\ roi[1].period.endDate \in DatesPresent
            /\ \A d \in DatesPresent :
                  roi[1].period.startDate <= d /\ d <= roi[1].period.endDate

\* ------------------------------------------------------------------
\* Period comparison: percentageChange, comparePeriods
\* ------------------------------------------------------------------

\* percentageChange answering -100 for a negative value that follows 0.
percentageChange_signed(current, previous) ==
    IF previous = Zero
    THEN IF Positive(current) THEN Whole(100)
         ELSE IF Less(current, Zero) THEN Whole(0 - 100) ELSE Zero
    ELSE Times(Over(Minus(current, previous), previous), Whole(100))

\* percentageChange answering 100 for every value not below 0 that follows 0.
percentageChange_fromZero(current, previous) ==
    IF previous = Zero
    THEN IF ~Less(current, Zero) THEN Whole(100) ELSE Zero
    ELSE Times(Over(Minus(current, previous), previous), Whole(100))

\* if (previous === 0) return current > 0 ? 100 : 0;
\* return ((current - previous) / previous) * 100;
percentageChange(current, previous) ==
    IF previous = Zero
    THEN IF Positive(current) THEN Whole(100) ELSE Zero
    ELSE Times(Over(Minus(current, previous), previous), Whole(100))

comparePeriods(current, previous) ==
    [currentPeriod |-> current,
     previousPeriod |-> previous,
     changes |->
        [spendChange |-> percentageChange(current.totalSpend, previous.totalSpend),
         salesChange |-> percentageChange(current.totalSales, previous.totalSales),
         acosChange |-> percentageChange(current.acos, previous.acos),
         profitChange |-> percentageChange(current.estimatedProfit,
                                           previous.estimatedProfit),
         impressionsChange |-> percentageChange(current.totalImpressions,
                                                previous.totalImpressions),
         clicksChange |-> percentageChange(current.totalClicks, previous.totalClicks)]]

\* What getCampaignMetrics returns for campaign c1 and a date window: rows of
\* c1 of distinct dates, ORDER BY date.
QueryResults ==
    {q \in SeqsUpTo({m \in FetchedMetrics : m.campaignId = "c1"}, MaxFetched) :
        \A i, j \in DOMAIN q : i < j => q[i].date < q[j].date}

\* compare_periods has read the metrics of the two windows.
InitCompare ==
    /\ adsClient = TRUE
    /\ keywords = [k \in KeywordIds |-> [keywordText |-> "kw", state |-> "enabled", bid |-> 110]]
    /\ campaigns = [c \in CampaignIds |-> [name |-> "camp", dailyBudget |-> 1000]]
    /\ pending_changes = <<>>
    /\ change_history = <<>>
    /\ apiCalls = <<>>
    /\ clock = 1
    /\ requests = 0
    /\ handler = [h \in Handlers |-> Idle]
    /\ result = [h \in Handlers |-> NoResponse]
    /\ campaign_metrics = <<>>
    /\ metrics \in QueryResults
    /\ previousMetrics \in QueryResults
    /\ config \in Configs
    /\ roi = <<>>
    /\ previousRoi = <<>>
    /\ comparison = <<>>
    /\ totals = <<>>
    /\ synced = 0
    /\ ReportsIdle
    /\ WorkerIdle

\* compare_periods, from the test for two empty windows on: the two reports
\* and their comparison.
compare_periods ==
    /\ comparison = <<>>
    /\ ~(Len(metrics) = 0 /\ Len(previousMetrics) = 0)
    /\ roi' = <<calculateROI("c1", "camp", metrics, config)>>
    /\ previousRoi' = <<calculateROI("c1", "camp", previousMetrics, config)>>
    /\ comparison' = <<comparePeriods(roi'[1], previousRoi'[1])>>
    /\ UNCHANGED <<campaign_metrics, metrics, previousMetrics, config, totals, synced>>
    /\ UNCHANGED vars
    /\ UNCHANGED reportVars
    /\ UNCHANGED workerVars

NextCompare == compare_periods

SpecCompare == InitCompare /\ [][NextCompare]_allVars

\* (c / p - 1) * 100 for p # 0; for p = 0: 100 if c > 0, else 0.
Change(c, p) ==
    IF p[1] = 0
    THEN IF c[1] > 0 THEN Whole(100) ELSE Zero
    ELSE LET r == Over(c, p)
         IN Frac((r[1] - r[2]) * 100, r[2])

\* C26: each of the six changes of a comparison is (current - previous) /
\* previous * 100 of its field when previous is not 0, and for previous = 0 it
\* is 100 if current > 0 and 0 otherwise, also for a negative current.
C26_PercentageChange ==
    comparison # <<>> =>
       LET c == roi[1]
           p == previousRoi[1]
           ch == comparison[1].changes
       IN /\ ch.spendChange = Change(c.totalSpend, p.totalSpend)
          /\ ch.salesChange = Change(c.totalSales, p.totalSales)
          /\ ch.acosChange = Change(c.acos, p.acos)
          /\ ch.profitChange = Change(c.estimatedProfit, p.estimatedProfit)
          /\ ch.impressionsChange = Change(c.totalImpressions, p.totalImpressions)
          /\ ch.clicksChange = Change(c.totalClicks, p.totalClicks)
          /\ comparison[1].currentPeriod = c
          /\ comparison[1].previousPeriod = p

\* A loss follows a period of profit 0 and spend follows a period without
\* spend: the profit change is 0 and the spend change is 100; sales fell from
\* a positive value.
C26_Witness ==
    /\ comparison # <<>>
    /\ previousRoi[1].estimatedProfit = Zero
    /\ Less(roi[1].estimatedProfit, Zero)
    /\ comparison[1].changes.profitChange = Zero
    /\ previousRoi[1].totalSpend = Zero
    /\ comparison[1].changes.spendChange = Whole(100)
    /\ Positive(previousRoi[1].totalSales)
    /\ comparison[1].changes.salesChange = Whole(0 - 100)

\* C27: the comparison of a report with itself has 0 for all six changes,
\* also when fields of the report are 0 or negative.
C27_SelfComparison ==
    (comparison # <<>> /\ roi = previousRoi) =>
       LET ch == comparison[1].changes
       IN /\ ch.spendChange = Zero
          /\ ch.salesChange = Zero
          /\ ch.acosChange = Zero
          /\ ch.profitChange = Zero
          /\ ch.impressionsChange = Zero
          /\ ch.clicksChange = Zero

\* A report with a loss and without sales was compared with itself.
C27_Witness ==
    /\ comparison # <<>>
    /\ roi = previousRoi
    /\ Less(roi[1].estimatedProfit, Zero)
    /\ roi[1].totalSales = Zero
    /\ roi[1].acos = Zero
    /\ Positive(roi[1].totalSpend)
    /\ comparison[1].changes.profitChange = Zero
    /\ comparison[1].changes.acosChange = Zero

\* C28: estimated royalties = total units sold * royaltyPerSale + total
\* page-read royalty, an absent page-read royalty counted as 0; estimated profit
\* = estimated royalties - total spend; profit margin = profit / royalties *
\* 100 when royalties are positive, and 0 when royalties = 0.
C28_RoyaltiesProfitMargin ==
    roi # <<>> =>
       LET r == roi[1] IN
       /\ r.estimatedRoyalties = Whole(EstimatedRoyalties)
       /\ r.estimatedProfit = Whole(EstimatedRoyalties - TotalSpend)
       /\ EstimatedRoyalties > 0 =>
             r.profitMargin = Frac((EstimatedRoyalties - TotalSpend) * 100,
                                   EstimatedRoyalties)
       /\ EstimatedRoyalties = 0 => r.profitMargin = Zero

\* Units were sold in a record without page-read royalty, another record has
\* page-read royalty, and the spend exceeds the royalties.
C28_Witness ==
    /\ roi # <<>>
    /\ \E i \in DOMAIN metrics :
          metrics[i].kenpRoyalties = UndefinedNum /\ metrics[i].unitsSold > 0
    /\ TotalKenpRoyalties > 0
    /\ config.royaltyPerSale > 0
    /\ roi[1].estimatedRoyalties = Whole(EstimatedRoyalties)
    /\ Less(roi[1].estimatedProfit, Zero)
    /\ Less(roi[1].profitMargin, Zero)

\* ------------------------------------------------------------------
\* JavaScript numbers as IEEE 754 binary64 values (the non-negative ones)
\* ------------------------------------------------------------------

\* Bits of the significand of a binary64 value.
SignificandBits == 53

\* A non-negative binary64 value: 0 is [e |-> 0, m |-> <<>>]; a positive value
\* is m[1].m[2]...m[53] * 2^e in binary, m[1] = 1 (most significant bit first).
NumberZero == [e |-> 0, m |-> <<>>]

RECURSIVE Pow2(_)
Pow2(k) == IF k = 0 THEN 1 ELSE 2 * Pow2(k - 1)

Zeros(n) == [i \in 1..n |-> 0]

\* The n binary digits of c < 2^n.
BitsOf(c, n) == [i \in 1..n |-> (c \div Pow2(n - i)) % 2]

\* The carry into bit i of a + b: some lower bit generates a carry that every
\* bit between passes on.
CarryInto(a, b, i) ==
    \E j \in (i + 1)..Len(a) :
       /\ a[j] + b[j] = 2
       /\ \A k \in (i + 1)..(j - 1) : a[k] + b[k] = 1

\* a + b of two bit sequences of the same length; one bit longer when the sum
\* carries out.
SumBits(a, b) ==
    LET low == [i \in 1..Len(a) |->
                  (a[i] + b[i] + IF CarryInto(a, b, i) THEN 1 ELSE 0) % 2]
    IN IF CarryInto(a, b, 0) THEN <<1>> \o low ELSE low

\* Round to nearest, ties to even: bits is the exact significand (at least 53
\* bits, bits[1] = 1) of the value bits[1].bits[2]... * 2^e.
RoundToNearestEven(bits, e) ==
    LET kept == SubSeq(bits, 1, SignificandBits)
        rest == SubSeq(bits, SignificandBits + 1, Len(bits))
        up == /\ rest # <<>>
              /\ rest[1] = 1
              /\ \/ \E i \in 2..Len(rest) : rest[i] = 1
                 \/ kept[SignificandBits] = 1
        inc == SumBits(kept, Zeros(SignificandBits - 1) \o <<1>>)
    IN IF ~up THEN [e |-> e, m |-> kept]
       ELSE IF Len(inc) = SignificandBits THEN [e |-> e, m |-> inc]
       ELSE [e |-> e + 1, m |-> SubSeq(inc, 1, SignificandBits)]

\* x + y of two numbers.
NumberPlus(x, y) ==
    IF x = NumberZero THEN y
    ELSE IF y = NumberZero THEN x
    ELSE LET hi == IF x.e >= y.e THEN x ELSE y
             lo == IF x.e >= y.e THEN y ELSE x
             shift == hi.e - lo.e
             sum == SumBits(hi.m \o Zeros(shift), Zeros(shift) \o lo.m)
         IN IF Len(sum) = SignificandBits + shift THEN RoundToNearestEven(sum, hi.e)
            ELSE RoundToNearestEven(sum, hi.e + 1)

\* The first 8 * n binary digits of r / d after the point, r < d < 2^23, and
\* the remainder they leave.
RECURSIVE Digits(_, _, _)
Digits(r, d, n) ==
    IF n = 0 THEN <<>>
    ELSE BitsOf((r * 256) \div d, 8) \o Digits((r * 256) % d, d, n - 1)

RECURSIVE Remainder(_, _, _)
Remainder(r, d, n) == IF n = 0 THEN r ELSE Remainder((r * 256) % d, d, n - 1)

\* The binary exponent of q / d >= 1, and that of q / d < 1.
RECURSIVE ExponentUp(_, _)
ExponentUp(q, d) == IF q < 2 * d THEN 0 ELSE 1 + ExponentUp(q, 2 * d)

RECURSIVE ExponentDown(_, _)
ExponentDown(q, d) == IF q >= d THEN 0 ELSE ExponentDown(2 * q, d) - 1

\* parseFloat of the text of a DECIMAL(10,2) value of the given number of
\* hundredths (below 2^23): the binary64 value nearest to hundredths / 100.
parseFloat(hundredths) ==
    IF hundredths = 0 THEN NumberZero
    ELSE LET e == IF hundredths >= 100 THEN ExponentUp(hundredths, 100)
                  ELSE ExponentDown(hundredths, 100)
             q == IF e < 0 THEN hundredths * Pow2(0 - e) ELSE hundredths
             d == IF e > 0 THEN 100 * Pow2(e) ELSE 100
             \* q / d lies in [1, 2): 1, 56 digits, and a bit for the rest
             left == Remainder(q - d, d, 7)
             bits == <<1>> \o Digits(q - d, d, 7) \o <<IF left > 0 THEN 1 ELSE 0>>
         IN RoundToNearestEven(bits, e)

\* ------------------------------------------------------------------
\* aggregateMetrics over the numbers read from campaign_metrics
\* ------------------------------------------------------------------

\* Rows of campaign_metrics, amounts in hundredths: three days of two
\* campaigns, one with sales and no page-read royalty, one with page-read
\* royalty and no sales.
DecimalRows ==
    { [campaignId |-> c, date |-> d, impressions |-> 100 * d, clicks |-> d,
       spend |-> 10 * d,
       sales |-> IF c = "c1" THEN 999 ELSE 0,
       orders |-> IF c = "c1" THEN 1 ELSE 0,
       unitsSold |-> IF c = "c1" THEN 1 ELSE 0,
       kenpRoyalties |-> IF c = "c1" THEN NullNum ELSE Num(70),
       kenpPagesRead |-> IF c = "c1" THEN NullNum ELSE Num(140)] :
        c \in MetricCampaigns, d \in 1..3 }

\* result.rows.map(row => ...): spend and sales through parseFloat,
\* kenp_royalties through parseFloat unless it is NULL.
readMetrics(row) ==
    [campaignId |-> row.campaignId, date |-> row.date,
     impressions |-> row.impressions, clicks |-> row.clicks,
     spend |-> parseFloat(row.spend), sales |-> parseFloat(row.sales),
     orders |-> row.orders, unitsSold |-> row.unitsSold,
     kenpRoyalties |-> IF row.kenpRoyalties.kind = "number"
                       THEN Num(parseFloat(row.kenpRoyalties.val))
                       ELSE UndefinedNum,
     kenpPagesRead |-> IF row.kenpPagesRead.kind = "number"
                       THEN row.kenpPagesRead ELSE UndefinedNum]

\* `x ?? 0` of a number that may be absent.
OrNumberZero(x) == IF x.kind = "number" THEN x.val ELSE NumberZero

\* aggregateMetrics of records as the database layer returns them: the counts
\* are integers, the amounts are added as binary64 numbers, from the first
\* element on.
RECURSIVE aggregateMetricsOfNumbers(_)
aggregateMetricsOfNumbers(ms) ==
    IF ms = <<>>
    THEN [impressions |-> 0, clicks |-> 0, spend |-> NumberZero, sales |-> NumberZero,
          orders |-> 0, unitsSold |-> 0, kenpRoyalties |-> NumberZero]
    ELSE LET acc == aggregateMetricsOfNumbers(SubSeq(ms, 1, Len(ms) - 1))
             m == ms[Len(ms)]
         IN [impressions |-> acc.impressions + m.impressions,
             clicks |-> acc.clicks + m.clicks,
             spend |-> NumberPlus(acc.spend, m.spend),
             sales |-> NumberPlus(acc.sales, m.sales),
             orders |-> acc.orders + m.orders,
             unitsSold |-> acc.unitsSold + m.unitsSold,
             kenpRoyalties |-> NumberPlus(acc.kenpRoyalties,
                                          OrNumberZero(m.kenpRoyalties))]

\* The metrics of an analysis have been read from the database.
InitAggregate ==
    /\ adsClient = TRUE
    /\ keywords = [k \in KeywordIds |-> [keywordText |-> "kw", state |-> "enabled", bid |-> 110]]
    /\ campaigns = [c \in CampaignIds |-> [name |-> "camp", dailyBudget |-> 1000]]
    /\ pending_changes = <<>>
    /\ change_history = <<>>
    /\ apiCalls = <<>>
    /\ clock = 1
    /\ requests = 0
    /\ handler = [h \in Handlers |-> Idle]
    /\ result = [h \in Handlers |-> NoResponse]
    /\ campaign_metrics = <<>>
    /\ metrics \in {[i \in DOMAIN q |-> readMetrics(q[i])] :
                       q \in SeqsUpTo(DecimalRows, MaxFetched)}
    /\ previousMetrics = <<>>
    /\ config = <<>>
    /\ roi = <<>>
    /\ previousRoi = <<>>
    /\ comparison = <<>>
    /\ totals = <<>>
    /\ synced = 0
    /\ ReportsIdle
    /\ WorkerIdle

\* const agg = aggregateMetrics(metrics)
callAggregateMetrics ==
    /\ totals = <<>>
    /\ totals' = <<aggregateMetricsOfNumbers(metrics)>>
    /\ UNCHANGED <<campaign_metrics, metrics, previousMetrics, config, roi, previousRoi,
                   comparison, synced>>
    /\ UNCHANGED vars
    /\ UNCHANGED reportVars
    /\ UNCHANGED workerVars

NextAggregate == callAggregateMetrics

SpecAggregate == InitAggregate /\ [][NextAggregate]_allVars

\* The records of metrics in the order f.
Permuted(f) == [i \in DOMAIN metrics |-> metrics[f[i]]]

\* C29: the totals of the aggregator (impressions, clicks, spend, sales,
\* orders, units sold, page-read royalty) are the field-wise sums of the
\* input records and are the same for every permutation of the records.
C29_TotalsOrderIndependent ==
    (totals # <<>> /\ metrics # <<>>) =>
       /\ totals[1].impressions = TotalImpressions
       /\ totals[1].clicks = TotalClicks
       /\ totals[1].orders = TotalOrders
       /\ totals[1].unitsSold = TotalUnitsSold
       /\ \A f \in Permutations(DOMAIN metrics) :
             aggregateMetricsOfNumbers(Permuted(f)) = totals[1]

\* ------------------------------------------------------------------
\* The analysis of the advertising summary (December 10-23, 2025)
\* ------------------------------------------------------------------

\* The two campaigns of the summary, amounts in cents, every order one unit;
\* the page-read royalty is absent or 0.
SummaryRows ==
    { [campaignId |-> "c1", date |-> 1, impressions |-> 20220, clicks |-> 202,
       spend |-> 14330, sales |-> 39975, orders |-> 25, unitsSold |-> 25,
       kenpRoyalties |-> k, kenpPagesRead |-> k] : k \in {UndefinedNum, Num(0)} }
    \cup
    { [campaignId |-> "c2", date |-> 1, impressions |-> 12610, clicks |-> 129,
       spend |-> 11610, sales |-> 36777, orders |-> 23, unitsSold |-> 23,
       kenpRoyalties |-> k, kenpPagesRead |-> k] : k \in {UndefinedNum, Num(0)} }

\* analyze_roi has read the metrics; the royalty per sale is unset or 2.80.
InitSummary ==
    /\ adsClient = TRUE
    /\ keywords = [k \in KeywordIds |-> [keywordText |-> "kw", state |-> "enabled", bid |-> 110]]
    /\ campaigns = [c \in CampaignIds |-> [name |-> "camp", dailyBudget |-> 1000]]
    /\ pending_changes = <<>>
    /\ change_history = <<>>
    /\ apiCalls = <<>>
    /\ clock = 1
    /\ requests = 0
    /\ handler = [h \in Handlers |-> Idle]
    /\ result = [h \in Handlers |-> NoResponse]
    /\ campaign_metrics = <<>>
    /\ metrics \in SeqsUpTo(SummaryRows, MaxFetched)
    /\ previousMetrics = <<>>
    /\ config \in Configs
    /\ roi = <<>>
    /\ previousRoi = <<>>
    /\ comparison = <<>>
    /\ totals = <<>>
    /\ synced = 0
    /\ ReportsIdle
    /\ WorkerIdle

SpecSummary == InitSummary /\ [][NextROI]_allVars

\* x in units of 1 / k, rounded to the nearest unit (halves away from 0).
Rounded(x, k) == Sign(x[1]) * ((2 * Abs(x[1]) * k + x[2]) \div (2 * x[2]))

\* The input has the totals of the summary and the royalty per sale is 2.80.
SummaryTotals ==
    /\ TotalImpressions = 32830 /\ TotalClicks = 331
    /\ TotalSpend = 25940 /\ TotalSales = 76752
    /\ TotalOrders = 48 /\ TotalUnitsSold = 48
    /\ TotalKenpRoyalties = 0
    /\ config.royaltyPerSale = 280

\* C30: for the totals impressions 32830, clicks 331, spend 259.40, sales
\* 767.52, orders 48, units sold 48 and royalty per unit 2.80 without
\* page-read royalty, calculateROI yields, rounded to two decimals, ACOS
\* 33.80, ROAS 2.96, CTR 1.01, CPC 0.78, conversion rate 14.50, estimated
\* royalties 134.40, estimated profit -125.00, break-even ACOS 17.51 and
\* profit margin -93.01 (ratios in hundredths, amounts in whole cents).
C30_SummaryValues ==
    (roi # <<>> /\ SummaryTotals) =>
       LET r == roi[1] IN
       /\ Rounded(r.acos, 100) = 3380
       /\ Rounded(r.roas, 100) = 296
       /\ Rounded(r.ctr, 100) = 101
       /\ Rounded(r.cpc, 1) = 78
       /\ Rounded(r.conversionRate, 100) = 1450
       /\ Rounded(r.estimatedRoyalties, 1) = 13440
       /\ Rounded(r.estimatedProfit, 1) = 0 - 12500
       /\ Rounded(r.breakEvenAcos, 100) = 1751
       /\ Rounded(r.profitMargin, 100) = 0 - 9301

\* The report of the two campaigns of the summary at 2.80 per sale.
C30_Witness ==
    /\ roi # <<>>
    /\ SummaryTotals
    /\ Len(metrics) = 2
    /\ roi[1].totalSpend = Whole(25940)
    /\ roi[1].totalSales = Whole(76752)
    /\ Less(roi[1].estimatedProfit, Zero)

\* ------------------------------------------------------------------
\* get_daily_breakdown: getAllMetrics, getCampaignMetrics, calculateDailyTrends
\* ------------------------------------------------------------------

\* The contents campaign_metrics can have after syncs: up to MaxFetched rows,
\* one per (campaign, date).
MetricsTables ==
    {t \in SeqsUpTo({MetricsRow(m) : m \in FetchedMetrics}, MaxFetched) :
        \A i, j \in DOMAIN t : SameKey(t[i], t[j]) => i = j}

\* result.rows.map(row => ...): a NULL kenp_royalties or kenp_pages_read is
\* read as undefined (amounts stay in hundredths).
rowToMetrics(row) ==
    [row EXCEPT !.kenpRoyalties = IF @.kind = "number" THEN @ ELSE UndefinedNum,
                !.kenpPagesRead = IF @.kind = "number" THEN @ ELSE UndefinedNum]

\* ORDER BY date: the orders in which the rows S of the table can be
\* returned; rows of the same date come in any order.
OrderByDate(table, S) ==
    {q \in [1..Cardinality(S) -> S] :
        /\ \A i, j \in DOMAIN q : q[i] = q[j] => i = j
        /\ \A i, j \in DOMAIN q : i < j => table[q[i]].date <= table[q[j]].date}

\* SELECT * FROM campaign_metrics WHERE date >= $1 AND date <= $2 ORDER BY date
getAllMetrics(table, startDate, endDate) ==
    {[i \in DOMAIN q |-> rowToMetrics(table[q[i]])] :
        q \in OrderByDate(table, {i \in DOMAIN table :
                                     /\ table[i].date >= startDate
                                     /\ table[i].date <= endDate})}

\* ... WHERE campaign_id = $1 AND date >= $2 AND date <= $3 ORDER BY date
getCampaignMetrics(table, campaignId, startDate, endDate) ==
    {[i \in DOMAIN q |-> rowToMetrics(table[q[i]])] :
        q \in OrderByDate(table, {i \in DOMAIN table :
                                     /\ table[i].campaignId = campaignId
                                     /\ table[i].date >= startDate
                                     /\ table[i].date <= endDate})}

\* metrics.map(m => ({date, spend, sales, acos, impressions, clicks}))
calculateDailyTrends(ms) ==
    [i \in DOMAIN ms |->
       [date |-> ms[i].date, spend |-> ms[i].spend, sales |-> ms[i].sales,
        acos |-> IF ms[i].sales > 0
                 THEN Times(Over(Whole(ms[i].spend), Whole(ms[i].sales)), Whole(100))
                 ELSE Zero,
        impressions |-> ms[i].impressions, clicks |-> ms[i].clicks]]

\* The store holds the metrics of earlier syncs.
InitDaily ==
    /\ adsClient = TRUE
    /\ keywords = [k \in KeywordIds |-> [keywordText |-> "kw", state |-> "enabled", bid |-> 110]]
    /\ campaigns = [c \in CampaignIds |-> [name |-> "camp", dailyBudget |-> 1000]]
    /\ pending_changes = <<>>
    /\ change_history = <<>>
    /\ apiCalls = <<>>
    /\ clock = 1
    /\ requests = 0
    /\ handler = [h \in Handlers |-> Idle]
    /\ result = [h \in Handlers |-> NoResponse]
    /\ campaign_metrics \in MetricsTables
    /\ metrics = <<>>
    /\ previousMetrics = <<>>
    /\ config = <<>>
    /\ roi = <<>>
    /\ previousRoi = <<>>
    /\ comparison = <<>>
    /\ totals = <<>>
    /\ synced = 0
    /\ ReportsIdle
    /\ WorkerIdle

\* get_daily_breakdown: the metrics of the range, of all campaigns for the
\* campaign id "all"; "No data found" when there are none, else one line per
\* element of calculateDailyTrends.
get_daily_breakdown(campaignId, startDate, endDate) ==
    /\ breakdown = <<>>
    /\ \E ms \in IF campaignId = "all"
                  THEN getAllMetrics(campaign_metrics, startDate, endDate)
                  ELSE getCampaignMetrics(campaign_metrics, campaignId, startDate, endDate) :
          breakdown' = <<[campaignId |-> campaignId, startDate |-> startDate,
                          endDate |-> endDate, found |-> Len(ms) > 0,
                          rows |-> IF Len(ms) = 0 THEN <<>> ELSE calculateDailyTrends(ms)]>>
    /\ UNCHANGED <<summary>>
    /\ UNCHANGED analysisVars
    /\ UNCHANGED vars
    /\ UNCHANGED workerVars

NextDaily ==
    \E campaignId \in MetricCampaigns \cup {"all"}, startDate \in MetricDates,
       endDate \in MetricDates :
       get_daily_breakdown(campaignId, startDate, endDate)

SpecDaily == InitDaily /\ [][NextDaily]_allVars

\* The stored records of date d within the range of the breakdown, and the
\* sum of a column over them.
RecordsOf(d) ==
    {i \in DOMAIN campaign_metrics :
        /\ campaign_metrics[i].date = d
        /\ d >= breakdown[1].startDate
        /\ d <= breakdown[1].endDate}

ColumnSum(d, column) ==
    SeqSum([i \in DOMAIN campaign_metrics |->
              IF i \in RecordsOf(d) THEN column[i] ELSE 0])

DaySpend(d) == ColumnSum(d, [i \in DOMAIN campaign_metrics |-> campaign_metrics[i].spend])
DaySales(d) == ColumnSum(d, [i \in DOMAIN campaign_metrics |-> campaign_metrics[i].sales])
DayImpressions(d) ==
    ColumnSum(d, [i \in DOMAIN campaign_metrics |-> campaign_metrics[i].impressions])
DayClicks(d) == ColumnSum(d, [i \in DOMAIN campaign_metrics |-> campaign_metrics[i].clicks])

\* C31: get_daily_breakdown with campaign id "all" returns one row per date of
\* the range that has records, whose spend, sales, impressions and clicks are
\* the sums over all campaigns' records of that date and whose ACOS is
\* computed from those sums.
C31_AllCampaignsCombined ==
    (breakdown # <<>> /\ breakdown[1].campaignId = "all") =>
       LET rows == breakdown[1].rows IN
       /\ \A d \in MetricDates :
             Cardinality({k \in DOMAIN rows : rows[k].date = d}) =
                IF RecordsOf(d) = {} THEN 0 ELSE 1
       /\ \A k \in DOMAIN rows :
             /\ rows[k].spend = DaySpend(rows[k].date)
             /\ rows[k].sales = DaySales(rows[k].date)
             /\ rows[k].impressions = DayImpressions(rows[k].date)
             /\ rows[k].clicks = DayClicks(rows[k].date)
             /\ rows[k].acos = IF DaySales(rows[k].date) > 0
                               THEN Frac(DaySpend(rows[k].date) * 100,
                                         DaySales(rows[k].date))
                               ELSE Zero

\* ------------------------------------------------------------------
\* analyze_roi: generateROISummary
\* ------------------------------------------------------------------

\* The analysis lines of generateROISummary: the branch of
\* `roi.acos > roi.breakEvenAcos`, and the two warnings.
generateROISummary(r) ==
    [found |-> TRUE,
     analysis |-> IF Less(r.breakEvenAcos, r.acos)
                  THEN "ACOS is above break-even"
                  ELSE "Campaign is profitable",
     lowCtr |-> Less(r.ctr, Frac(3, 10)),
     lowConversion |-> Less(r.conversionRate, Whole(5))]

\* analyze_roi: "No metrics found" for an empty result, else the summary of
\* the report of calculateROI.
analyze_roi ==
    /\ summary = <<>>
    /\ roi = <<>>
    /\ IF Len(metrics) = 0
       THEN /\ summary' = <<[found |-> FALSE, analysis |-> "No metrics found",
                             lowCtr |-> FALSE, lowConversion |-> FALSE]>>
            /\ roi' = roi
       ELSE /\ roi' = <<calculateROI("c1", "camp", metrics, config)>>
            /\ summary' = <<generateROISummary(roi'[1])>>
    /\ UNCHANGED <<campaign_metrics, metrics, previousMetrics, config, previousRoi,
                   comparison, totals, synced, breakdown>>
    /\ UNCHANGED vars
    /\ UNCHANGED workerVars

NextAnalyze == analyze_roi

SpecAnalyze == InitROI /\ [][NextAnalyze]_allVars

\* C32: when the summary says that the campaign is profitable (ACOS not above
\* break-even ACOS), the estimated profit of the report is not negative; when
\* it warns that ACOS is above break-even, the estimated profit is negative.
C32_ProfitableMeansNoLoss ==
    (summary # <<>> /\ summary[1].found) =>
       /\ summary[1].analysis = "Campaign is profitable" =>
             ~Less(roi[1].estimatedProfit, Zero)
       /\ summary[1].analysis = "ACOS is above break-even" =>
             Less(roi[1].estimatedProfit, Zero)

\* C33: in every reachable state the execution timestamp of a proposal is set
\* exactly if its status is executed or failed, its review timestamp is unset
\* exactly if its status is pending, and its error text is set only if its
\* status is failed.
C33_TimestampsMatchStatus ==
    \A id \in DOMAIN pending_changes :
       LET c == pending_changes[id] IN
       /\ (c.executedAt # NoTime) <=> (c.status \in {"executed", "failed"})
       /\ (c.reviewedAt = NoTime) <=> (c.status = "pending")
       /\ (c.errorMessage # SqlNull) => (c.status = "failed")

\* C34: a proposal stored as approved (approved while no backend was
\* configured) stays approved in every later step; every approve or reject
\* that reads it then answers conflict; it never becomes executed, failed or
\* rejected, and no backend mutation is invoked for it.
C34_ApprovedStaysApproved ==
    [][\A id \in DOMAIN pending_changes :
         pending_changes[id].status = "approved" =>
            /\ pending_changes'[id].status = "approved"
            /\ \A h \in Handlers :
                  approve_change(h, id) =>
                     result'[h] = Conflict("approve_change", id, "approved")
            /\ \A h \in Handlers :
                  reject_change(h, id) =>
                     result'[h] = Conflict("reject_change", id, "approved")
            /\ \A k \in DOMAIN apiCalls' : apiCalls'[k].changeId # id]_vars

\* A step of an approve operation of handler h.
ApproveStep(h) ==
    \/ \E id \in ChangeIdArgs : approve_change(h, id)
    \/ approve_recordOnly(h)
    \/ \E ok \in BOOLEAN, message \in BackendMessages : approve_execute(h, ok, message)
    \/ approve_markExecuted(h)
    \/ approve_historySuccess(h)
    \/ approve_markFailed(h)
    \/ approve_historyFailure(h)

\* C35: no step of an approve operation changes the stored keywords or
\* campaigns, so after a bid, state or budget proposal is executed the stored
\* bid, state or budget of the target is the one from before the approve; the
\* stored keywords change only by an upsert of the sync worker.
C35_ApproveLeavesStoredTargets ==
    [][/\ \A h \in Handlers :
            ApproveStep(h) => keywords' = keywords /\ campaigns' = campaigns
       /\ keywords' # keywords =>
            /\ \E k \in KeywordIds, b \in StoredBids, st \in StoredStates :
                  syncKeywords(k, b, st)
            /\ handler' = handler
            /\ pending_changes' = pending_changes]_vars

\* A bid change to 0.85 was executed by the backend and the keyword's stored
\* bid is still 1.10.
C35_Witness ==
    \E h \in Handlers :
       /\ result[h].tool = "approve_change"
       /\ result[h].outcome = "executed"
       /\ pending_changes[result[h].changeId].changeType = "bid_adjustment"
       /\ pending_changes[result[h].changeId].proposedValue = {<<"bid", 85>>}
       /\ \E k \in DOMAIN apiCalls : apiCalls[k].op = "updateKeywordBid"
       /\ keywords[pending_changes[result[h].changeId].targetId].bid = 110

\* C36: the old value of every history entry is the current-value snapshot of
\* its proposal; an approve that reads a pending proposal goes on to execute
\* it whatever the stored value of the target is, and the backend call carries
\* the proposed value: an upsert of the target between propose and approve
\* neither blocks the execution nor changes the recorded old value.
C36_SnapshotNotCompared ==
    [][/\ \A k \in DOMAIN change_history' :
            change_history'[k].oldValue =
               pending_changes'[change_history'[k].pendingChangeId].currentValue
       /\ \A h \in Handlers : \A id \in DOMAIN pending_changes :
            (approve_change(h, id) /\ pending_changes[id].status = "pending") =>
               handler'[h].pc = IF adsClient THEN "approve_execute"
                                ELSE "approve_recordOnly"
       /\ \A h \in Handlers :
            (handler[h].pc = "approve_execute" /\ handler'[h] # handler[h]) =>
               /\ Len(apiCalls') = Len(apiCalls) + 1
               /\ \A v \in pending_changes[handler[h].changeId].proposedValue :
                     \E i \in DOMAIN apiCalls'[Len(apiCalls')].value :
                        apiCalls'[Len(apiCalls')].value[i] = v[2]]_vars

\* A bid change proposed at the stored bid 1.10 was executed and recorded with
\* the old value 1.10 although the sync worker has stored the bid 0.95.
C36_Witness ==
    \E h \in Handlers : \E k \in DOMAIN change_history :
       /\ result[h].tool = "approve_change"
       /\ result[h].outcome = "executed"
       /\ change_history[k].pendingChangeId = result[h].changeId
       /\ change_history[k].success
       /\ change_history[k].oldValue = {<<"bid", 110>>}
       /\ change_history[k].newValue = {<<"bid", 85>>}
       /\ keywords[change_history[k].targetId].bid = 95

\* ------------------------------------------------------------------
\* The report poll of the Ads client: fetchCampaignMetrics
\* ------------------------------------------------------------------

\* Time is counted in units of the clock read by Date.now(). A request or a
\* timer takes up to MaxLatency units more than its least duration.
MaxLatency == 1
Latencies == 0..MaxLatency
PollIntervals == {0, 1, 2}
MaxWaitTimes == {0, 2, 3}

\* The answers of GET /reporting/reports/{reportId}.
ReportStatusV3 ==
    [status : {"PENDING", "PROCESSING", "COMPLETED", "FAILED"},
     url : BOOLEAN,
     failureReason : {"", "INTERNAL_ERROR"}]

InitFetch ==
    /\ Init
    /\ adsClient = TRUE

\* The call ends: a returned value or a raised error.
FetchDone(outcome, message) ==
    [fetch EXCEPT !.pc = "done", !.outcome = outcome, !.message = message]

\* The loop without the limit of maxWaitTime.
WhileTest_unbounded(f, now) ==
    [f EXCEPT !.pc = "getReportStatus", !.now = now, !.statusRequests = @ + 1]

\* The test of the while loop at the time now: the next status request is
\* issued, or the time-out error is raised.
WhileTest(f, now) ==
    IF now - f.startTime < f.maxWaitTime
    THEN [f EXCEPT !.pc = "getReportStatus", !.now = now,
                   !.statusRequests = @ + 1]
    ELSE [f EXCEPT !.pc = "done", !.now = now, !.outcome = "error",
                   !.message = "Report generation timed out"]

\* The call: the report request is sent.
fetchCampaignMetrics(pollInterval, maxWaitTime) ==
    /\ fetch.pc = "idle"
    /\ fetch' = [fetch EXCEPT !.pc = "requestCampaignReport",
                              !.pollInterval = pollInterval,
                              !.maxWaitTime = maxWaitTime]
    /\ UNCHANGED run
    /\ UNCHANGED vars
    /\ UNCHANGED analysisVars
    /\ UNCHANGED reportVars

\* The report request is answered after d units: startTime is read and the
\* loop is entered; a rejected request ends the call.
requestCampaignReport(ok, d) ==
    /\ fetch.pc = "requestCampaignReport"
    /\ fetch' = IF ok
                THEN WhileTest([fetch EXCEPT !.startTime = fetch.now + d], fetch.now + d)
                ELSE [FetchDone("error", "API Error") EXCEPT !.now = fetch.now + d]
    /\ UNCHANGED run
    /\ UNCHANGED vars
    /\ UNCHANGED analysisVars
    /\ UNCHANGED reportVars

\* The status request is answered after d units with status: the download is
\* started, the failure is raised or the timer is set.
getReportStatus(status, d) ==
    /\ fetch.pc = "getReportStatus"
    /\ LET f == [fetch EXCEPT !.now = fetch.now + d, !.status = status] IN
       fetch' = IF status.status = "COMPLETED" /\ status.url
                THEN [f EXCEPT !.pc = "downloadReport"]
                ELSE IF status.status = "FAILED"
                THEN [f EXCEPT !.pc = "done", !.outcome = "error",
                               !.message = IF status.failureReason # ""
                                           THEN status.failureReason
                                           ELSE "Unknown error"]
                ELSE [f EXCEPT !.pc = "setTimeout"]
    /\ UNCHANGED run
    /\ UNCHANGED vars
    /\ UNCHANGED analysisVars
    /\ UNCHANGED reportVars

\* The status request is rejected after d units: the error leaves the call.
getReportStatusThrows(d) ==
    /\ fetch.pc = "getReportStatus"
    /\ fetch' = [FetchDone("error", "API Error") EXCEPT !.now = fetch.now + d]
    /\ UNCHANGED run
    /\ UNCHANGED vars
    /\ UNCHANGED analysisVars
    /\ UNCHANGED reportVars

\* The timer of pollInterval fires, d units late; a timer of less than one
\* unit lasts one unit. The loop test follows.
setTimeout(d) ==
    /\ fetch.pc = "setTimeout"
    /\ fetch' = WhileTest(fetch, fetch.now + d
                                  + (IF fetch.pollInterval < 1 THEN 1
                                     ELSE fetch.pollInterval))
    /\ UNCHANGED run
    /\ UNCHANGED vars
    /\ UNCHANGED analysisVars
    /\ UNCHANGED reportVars

\* The download is answered: the parsed records are returned, or the error
\* of a response that is not ok is raised.
downloadReport(ok) ==
    /\ fetch.pc = "downloadReport"
    /\ fetch' = IF ok THEN FetchDone("metrics", "")
                ELSE FetchDone("error", "Failed to download report")
    /\ UNCHANGED run
    /\ UNCHANGED vars
    /\ UNCHANGED analysisVars
    /\ UNCHANGED reportVars

NextFetch ==
    \/ \E p \in PollIntervals, w \in MaxWaitTimes : fetchCampaignMetrics(p, w)
    \/ \E ok \in BOOLEAN, d \in Latencies : requestCampaignReport(ok, d)
    \/ \E status \in ReportStatusV3, d \in Latencies : getReportStatus(status, d)
    \/ \E d \in Latencies : getReportStatusThrows(d)
    \/ \E d \in Latencies : setTimeout(d)
    \/ \E ok \in BOOLEAN : downloadReport(ok)

\* Every request is answered and every timer fires.
SpecFetch == InitFetch /\ [][NextFetch]_allVars /\ WF_allVars(NextFetch)

\* The last status answer ends the poll: COMPLETED with a url, or FAILED.
FinalStatus(f) ==
    \/ f.status.status = "COMPLETED" /\ f.status.url
    \/ f.status.status = "FAILED"

\* What one step of the poll from f to g does, but for the download: a status
\* COMPLETED with a url starts the download at once, a status FAILED raises
\* the failure at once, a loop test at or after maxWaitTime raises the
\* time-out error and an earlier one sends the next status request, and no
\* status request follows a final status.
PollStep(f, g) ==
    /\ (f.pc = "getReportStatus" /\ g # f /\ g.status.status = "COMPLETED"
                                          /\ g.status.url) =>
          /\ g.pc = "downloadReport"
          /\ g.statusRequests = f.statusRequests
    /\ (f.pc = "getReportStatus" /\ g # f /\ g.status.status = "FAILED") =>
          /\ g.pc = "done"
          /\ g.outcome = "error"
          /\ g.message = IF g.status.failureReason # "" THEN g.status.failureReason
                         ELSE "Unknown error"
    /\ ((f.pc = "setTimeout" /\ g # f) \/ (f.pc = "requestCampaignReport" /\ g # f
                                            /\ g.message # "API Error")) =>
          IF g.now - g.startTime >= g.maxWaitTime
          THEN /\ g.pc = "done"
               /\ g.outcome = "error"
               /\ g.message = "Report generation timed out"
               /\ g.statusRequests = f.statusRequests
          ELSE /\ g.pc = "getReportStatus"
               /\ g.statusRequests = f.statusRequests + 1
    /\ FinalStatus(f) =>
          /\ g.statusRequests = f.statusRequests
          /\ g.pc \in {"downloadReport", "done"}

Campaign(id, name, state, targetingType) ==
    [id |-> id, name |-> name, state |-> state, targetingType |-> targetingType]

C1 == <<"c", "1">>
C2 == <<"c", "2">>
Demo1 == <<"d", "e", "m", "o", "-", "1">>
Demo == <<"d", "e", "m", "o">>

\* The campaigns table before the run.
StoredCampaigns ==
    {{},
     {Campaign(Demo1, 1, "enabled", "manual")},
     {Campaign(C2, 3, "enabled", "manual"), Campaign(Demo, 4, "enabled", "manual")}}

\* The answers of client.getCampaigns().
FetchedCampaigns ==
    {<<>>,
     <<Campaign(C1, 2, "enabled", "manual")>>,
     <<Campaign(C1, 2, "enabled", "manual"), Campaign(C2, 3, "enabled", "manual")>>,
     <<Campaign(C1, 2, "enabled", "auto"), Campaign(C2, 3, "paused", "manual")>>}

\* The numbers of records one API call returns.
FetchedCounts == {2}

\* The outcomes of one API call followed by the upserts of its records.
CallOutcomes == {"ok", "api_error", "db_error"}

\* campaignId.startsWith('demo-')
isDemoCampaignId(campaignId) ==
    /\ Len(campaignId) >= 5
    /\ SubSeq(campaignId, 1, 5) = <<"d", "e", "m", "o", "-">>

\* INSERT INTO campaigns ... ON CONFLICT(id) DO UPDATE SET the other columns.
upsertCampaign(table, campaign) ==
    {row \in table : row.id # campaign.id} \cup {campaign}

RECURSIVE upsertCampaigns(_, _)
upsertCampaigns(table, fetched) ==
    IF fetched = <<>> THEN table
    ELSE upsertCampaigns(upsertCampaign(table, Head(fetched)), Tail(fetched))

\* SELECT * FROM campaigns [WHERE state = $1] ORDER BY name: the possible
\* answers; state "" is the call without a state.
getCampaigns(table, state) ==
    LET rows == {row \in table : state = "" \/ row.state = state} IN
    {list \in [1..Cardinality(rows) -> rows] :
        /\ \A i, j \in DOMAIN list : i < j => list[i] # list[j]
        /\ \A i, j \in DOMAIN list : i < j => list[i].name <= list[j].name}

\* The campaigns a loop does not skip: no demo campaign; manual targeting only
\* in the loops of keywords and targets.
Processed(loop, campaign) ==
    /\ ~isDemoCampaignId(campaign.id)
    /\ loop = "getAdGroups" \/ campaign.targetingType = "manual"

\* The position of the first campaign after position i that loop processes;
\* Len(list) + 1 if there is none.
NextProcessed(loop, list, i) ==
    LET later == {j \in (i + 1)..Len(list) : Processed(loop, list[j])} IN
    IF later = {} THEN Len(list) + 1
    ELSE CHOOSE j \in later : \A k \in later : j <= k

\* The records counted for a call that returned n records.
Counted(outcome, n) ==
    IF outcome = "ok" THEN n
    ELSE IF outcome = "db_error" THEN n - 1
    ELSE 0

\* The run ends with the error caught in runSync.
RunFailed(r, message) ==
    [r EXCEPT !.pc = "done", !.success = FALSE, !.errorMessage = message,
              !.list = <<>>, !.index = 0, !.count = 0]

\* The loop of a stage at position j of list: the call for the campaign at j
\* is sent, or, after the last processed campaign, the stage returns its count
\* and the next stage starts.
AtPosition(r, loop, after, list, j) ==
    IF j > Len(list)
    THEN [r EXCEPT !.pc = after, !.list = <<>>, !.index = 0, !.count = 0,
                   !.totalRecords = @ + r.count]
    ELSE [r EXCEPT !.pc = loop, !.list = list, !.index = j]

\* The call for the campaign at the loop position is answered with n records
\* and they are upserted; an error of the call or of an upsert is caught and
\* logged, and the loop goes on. The loops without their try and catch:
Called_uncaught(r, loop, after, outcome, n) ==
    LET called == [r EXCEPT !.calls = Append(@, [stage |-> loop,
                                                 campaignId |-> r.list[r.index].id,
                                                 outcome |-> outcome]),
                            !.count = @ + Counted(outcome, n)] IN
    IF outcome = "ok"
    THEN AtPosition(called, loop, after, r.list, NextProcessed(loop, r.list, r.index))
    ELSE RunFailed(called, outcome)

Called(r, loop, after, outcome, n) ==
    AtPosition([r EXCEPT !.calls = Append(@, [stage |-> loop,
                                              campaignId |-> r.list[r.index].id,
                                              outcome |-> outcome]),
                         !.count = @ + Counted(outcome, n)],
               loop, after, r.list, NextProcessed(loop, r.list, r.index))

InitSync ==
    /\ Init
    /\ adsClient = TRUE

\* The call of runSync with the campaigns table as it is: db.migrate is sent.
runSync(table) ==
    /\ run.pc = "idle"
    /\ run' = [run EXCEPT !.pc = "migrate", !.table = table]
    /\ UNCHANGED fetch
    /\ UNCHANGED vars
    /\ UNCHANGED analysisVars
    /\ UNCHANGED reportVars

\* db.migrate is answered.
migrate(ok) ==
    /\ run.pc = "migrate"
    /\ run' = IF ok THEN [run EXCEPT !.pc = "syncCampaigns"]
              ELSE RunFailed(run, "query failed")
    /\ UNCHANGED fetch
    /\ UNCHANGED vars
    /\ UNCHANGED analysisVars
    /\ UNCHANGED reportVars

\* syncCampaigns: client.getCampaigns is answered with fetched and every
\* campaign is upserted; the error of the call, or of the last upsert, leaves
\* the stage and ends the run.
syncCampaigns(fetched, outcome) ==
    /\ run.pc = "syncCampaigns"
    /\ outcome = "db_error" => fetched # <<>>
    /\ LET called == [run EXCEPT !.calls = Append(@, [stage |-> "getCampaigns",
                                                      campaignId |-> <<>>,
                                                      outcome |-> outcome])] IN
       run' = IF outcome = "ok"
              THEN [called EXCEPT !.pc = "syncAdGroups",
                                  !.table = upsertCampaigns(@, fetched),
                                  !.totalRecords = @ + Len(fetched)]
              ELSE IF outcome = "api_error"
              THEN RunFailed(called, "API Error")
              ELSE RunFailed([called EXCEPT !.table =
                                upsertCampaigns(@, SubSeq(fetched, 1, Len(fetched) - 1))],
                             "query failed")
    /\ UNCHANGED fetch
    /\ UNCHANGED vars
    /\ UNCHANGED analysisVars
    /\ UNCHANGED reportVars

\* syncAdGroups: db.getCampaigns is answered and the loop starts, or the error of
\* the query leaves the stage and ends the run.
syncAdGroups(ok) ==
    /\ run.pc = "syncAdGroups"
    /\ IF ok
       THEN \E list \in getCampaigns(run.table, "") :
               run' = AtPosition(run, "getAdGroups", "syncKeywords", list,
                                 NextProcessed("getAdGroups", list, 0))
       ELSE run' = RunFailed(run, "query failed")
    /\ UNCHANGED fetch
    /\ UNCHANGED vars
    /\ UNCHANGED analysisVars
    /\ UNCHANGED reportVars

\* client.getAdGroups of one campaign is answered and the ad groups are upserted.
getAdGroups(outcome, n) ==
    /\ run.pc = "getAdGroups"
    /\ outcome = "db_error" => n > 0
    /\ run' = Called(run, "getAdGroups", "syncKeywords", outcome, n)
    /\ UNCHANGED fetch
    /\ UNCHANGED vars
    /\ UNCHANGED analysisVars
    /\ UNCHANGED reportVars

\* syncKeywords of the run: db.getCampaigns is answered and the loop starts, or the error of
\* the query leaves the stage and ends the run.
syncKeywordsStage(ok) ==
    /\ run.pc = "syncKeywords"
    /\ IF ok
       THEN \E list \in getCampaigns(run.table, "enabled") :
               run' = AtPosition(run, "getKeywords", "syncTargets", list,
                                 NextProcessed("getKeywords", list, 0))
       ELSE run' = RunFailed(run, "query failed")
    /\ UNCHANGED fetch
    /\ UNCHANGED vars
    /\ UNCHANGED analysisVars
    /\ UNCHANGED reportVars

\* client.getKeywords of one campaign is answered and the keywords are upserted.
getKeywords(outcome, n) ==
    /\ run.pc = "getKeywords"
    /\ outcome = "db_error" => n > 0
    /\ run' = Called(run, "getKeywords", "syncTargets", outcome, n)
    /\ UNCHANGED fetch
    /\ UNCHANGED vars
    /\ UNCHANGED analysisVars
    /\ UNCHANGED reportVars

\* syncTargets: db.getCampaigns is answered and the loop starts, or the error of
\* the query leaves the stage and ends the run.
syncTargets(ok) ==
    /\ run.pc = "syncTargets"
    /\ IF ok
       THEN \E list \in getCampaigns(run.table, "enabled") :
               run' = AtPosition(run, "getTargets", "syncMetrics", list,
                                 NextProcessed("getTargets", list, 0))
       ELSE run' = RunFailed(run, "query failed")
    /\ UNCHANGED fetch
    /\ UNCHANGED vars
    /\ UNCHANGED analysisVars
    /\ UNCHANGED reportVars

\* client.getTargets of one campaign is answered and the targets are upserted; n
\* counts the product targets and the category targets together.
getTargets(outcome, n) ==
    /\ run.pc = "getTargets"
    /\ outcome = "db_error" => n > 0
    /\ run' = Called(run, "getTargets", "syncMetrics", outcome, n)
    /\ UNCHANGED fetch
    /\ UNCHANGED vars
    /\ UNCHANGED analysisVars
    /\ UNCHANGED reportVars

\* syncMetrics of the run: fetchCampaignMetrics returns n records, which are
\* upserted, or raises; an error is caught and the stage returns 0.
syncMetricsStage(outcome, n) ==
    /\ run.pc = "syncMetrics"
    /\ outcome = "db_error" => n > 0
    /\ run' = [run EXCEPT !.pc = "done",
                          !.calls = Append(@, [stage |-> "fetchCampaignMetrics",
                                               campaignId |-> <<>>,
                                               outcome |-> outcome]),
                          !.totalRecords = @ + (IF outcome = "ok" THEN n ELSE 0)]
    /\ UNCHANGED fetch
    /\ UNCHANGED vars
    /\ UNCHANGED analysisVars
    /\ UNCHANGED reportVars

NextSync ==
    \/ \E table \in StoredCampaigns : runSync(table)
    \/ \E ok \in BOOLEAN : migrate(ok)
    \/ \E fetched \in FetchedCampaigns, outcome \in CallOutcomes :
          syncCampaigns(fetched, outcome)
    \/ \E ok \in BOOLEAN : syncAdGroups(ok)
    \/ \E outcome \in CallOutcomes, n \in FetchedCounts : getAdGroups(outcome, n)
    \/ \E ok \in BOOLEAN : syncKeywordsStage(ok)
    \/ \E outcome \in CallOutcomes, n \in FetchedCounts : getKeywords(outcome, n)
    \/ \E ok \in BOOLEAN : syncTargets(ok)
    \/ \E outcome \in CallOutcomes, n \in FetchedCounts : getTargets(outcome, n)
    \/ \E outcome \in CallOutcomes, n \in FetchedCounts : syncMetricsStage(outcome, n)

SpecSync == InitSync /\ [][NextSync]_allVars

\* The place of a position of the run in the order campaigns, ad groups,
\* keywords, targets, metrics.
StageRank(pc) ==
    CASE pc = "idle" -> 0
      [] pc = "migrate" -> 1
      [] pc \in {"syncCampaigns", "getCampaigns"} -> 2
      [] pc \in {"syncAdGroups", "getAdGroups"} -> 3
      [] pc \in {"syncKeywords", "getKeywords"} -> 4
      [] pc \in {"syncTargets", "getTargets"} -> 5
      [] pc \in {"syncMetrics", "fetchCampaignMetrics"} -> 6
      [] pc = "done" -> 7

\* The stage that follows the loop of a stage.
StageAfter(loop) ==
    CASE loop = "getAdGroups" -> "syncKeywords"
      [] loop = "getKeywords" -> "syncTargets"
      [] loop = "getTargets" -> "syncMetrics"

\* The step from r to q made a call that ended in an error.
CallFailed(r, q, stages) ==
    /\ Len(q.calls) = Len(r.calls) + 1
    /\ q.calls[Len(q.calls)].stage \in stages
    /\ q.calls[Len(q.calls)].outcome # "ok"

\* C38: a run goes through its stages in the order campaigns, ad groups,
\* keywords, targets, metrics and calls the API in that order; an error of the
\* call for one campaign in the ad-group, keyword or target stage leaves the
\* run successful and is followed by the next campaign of the stage or by the
\* next stage; an error of the metrics fetch leaves the run successful; a run
\* that ends successfully has made the call of every stage for every campaign
\* the stage processes; an error in the campaign stage ends the run as failed
\* and nothing follows it.
C38_StagesInOrder ==
    [][/\ \/ StageRank(run'.pc) \in {StageRank(run.pc), StageRank(run.pc) + 1}
          \/ run'.pc = "done" /\ ~run'.success
       /\ \A i, j \in DOMAIN run'.calls :
             i < j => StageRank(run'.calls[i].stage) <= StageRank(run'.calls[j].stage)
       /\ CallFailed(run, run', {"getAdGroups", "getKeywords", "getTargets"}) =>
             /\ run'.success
             /\ LET next == NextProcessed(run.pc, run.list, run.index) IN
                IF next <= Len(run.list)
                THEN run'.pc = run.pc /\ run'.index = next /\ run'.list = run.list
                ELSE run'.pc = StageAfter(run.pc)
       /\ CallFailed(run, run', {"fetchCampaignMetrics"}) =>
             run'.success /\ run'.pc = "done"
       /\ (run'.pc = "done" /\ run'.success) =>
             /\ \A c \in run'.table :
                   /\ Processed("getAdGroups", c) =>
                         \E k \in DOMAIN run'.calls :
                            /\ run'.calls[k].stage = "getAdGroups"
                            /\ run'.calls[k].campaignId = c.id
                   /\ (Processed("getKeywords", c) /\ c.state = "enabled") =>
                         \A stage \in {"getKeywords", "getTargets"} :
                            \E k \in DOMAIN run'.calls :
                               /\ run'.calls[k].stage = stage
                               /\ run'.calls[k].campaignId = c.id
             /\ \E k \in DOMAIN run'.calls :
                   run'.calls[k].stage = "fetchCampaignMetrics"
       /\ CallFailed(run, run', {"getCampaigns"}) =>
             run'.pc = "done" /\ ~run'.success
       /\ run.pc # "done"]_run

\* A run that ended successfully although the ad groups and the keywords of
\* the first campaign and the metrics could not be fetched: the ad groups,
\* keywords and targets of the second campaign were fetched after the errors.
C38_Witness ==
    /\ run.pc = "done"
    /\ run.success
    /\ \E i, j, k, l \in DOMAIN run.calls :
          /\ i < j /\ j < k /\ k < l
          /\ run.calls[i] = [stage |-> "getAdGroups", campaignId |-> C1,
                             outcome |-> "api_error"]
          /\ run.calls[j] = [stage |-> "getAdGroups", campaignId |-> C2,
                             outcome |-> "ok"]
          /\ run.calls[k] = [stage |-> "getKeywords", campaignId |-> C1,
                             outcome |-> "db_error"]
          /\ run.calls[l] = [stage |-> "getTargets", campaignId |-> C2,
                             outcome |-> "ok"]
    /\ run.calls[Len(run.calls)] = [stage |-> "fetchCampaignMetrics",
                                    campaignId |-> <<>>, outcome |-> "api_error"]

====
